---- MODULE Spec2Model ----
(***************************************************************************)
(* A model of the sazo-toolkit Slack bots.                                 *)
(*                                                                         *)
(*   translate-bot  (packages/translate-bot/main.go)                       *)
(*       splitByNewlineChunk, protectCurrency / restoreCurrency,           *)
(*       protectLaughter / restoreLaughter, determineLang, processMessage  *)
(*   bamboo-forest  (packages/bamboo-forest/main.go)                       *)
(*       handleViewSubmission, postNewMessage, postThreadReply,            *)
(*       handleEmojiReaction, handleBlockAction, handler                   *)
(*   ai-prompts     (scripts/auto-update.sh, install.sh)                   *)
(*   claude-notify  (install-claude-notify.sh)                             *)
(*                                                                         *)
(* Text is a sequence of Unicode code points (runes); a byte string is a   *)
(* sequence of numbers 0..255 obtained from the runes by UTF-8 encoding.   *)
(***************************************************************************)
EXTENDS Integers, Sequences, FiniteSets, TLC

VARIABLES
    \* splitByNewlineChunk: arguments and locals
    msg, minB, maxB, data, parts, spc,
    \* protect / restore of one chunk: the chunk as received, the target
    \* language, the chunk as rewritten so far, the two replacement lists and
    \* the functions applied so far
    text, targetLang, cur, currencyRepls, laughterRepls, ops,
    \* processMessage: the event, the local lang, the calls made to
    \* translateChunks and to slack.PostMessage, the returned error, the
    \* control position
    ev, lang, translateCalls, slackPosts, ret, ppc,
    \* bamboo-forest view submissions: the payloads delivered, and for each
    \* one handled its payload, the PostMessage calls made and the response
    bbIn, bbLog,
    \* bamboo-forest emoji reactions: whether the Sheets client exists, the
    \* rows of the reactions sheet, the running invocations of
    \* handleEmojiReaction, and the UpdateMessage calls made
    sheetsOn, sheet, inv, updates,
    \* the Lambda handlers: the function a request was delivered to, the
    \* request, the response, what the handler has done with the request so
    \* far, the Slack calls made by the handler's own helpers, the number of
    \* deliveries and of outbound calls when the request arrived, and the
    \* control position
    bot, hreq, hresp, hsteps, hcalls, hmark, hpc,
    \* auto-update.sh: the run (what it finds, the git commands it has run,
    \* its exit), the entries of ~/.claude/{commands,skills,agents} now and
    \* when the run started
    au, links, links0

splitVars == <<msg, minB, maxB, data, parts, spc>>
protVars == <<text, targetLang, cur, currencyRepls, laughterRepls, ops>>
pmVars == <<ev, lang, translateCalls, slackPosts, ret, ppc>>

bbVars == <<bbIn, bbLog>>

reVars == <<sheetsOn, sheet, inv, updates>>

hVars == <<bot, hreq, hresp, hsteps, hcalls, hmark, hpc>>

auVars == <<au, links, links0>>

vars == <<splitVars, protVars, pmVars, bbVars, reVars, hVars, auVars>>

(***************************************************************************)
(* Bounds of the model.                                                    *)
(***************************************************************************)
\* longest message, in runes, handed to splitByNewlineChunk
MaxRunes == 4
\* largest maxB handed to splitByNewlineChunk
MaxMaxB == 5
\* chunks after which the model stops following a loop that makes no progress
MaxParts == 6
\* fragments a chunk handed to the protect functions is composed of
MaxFrags == 4
\* repetitions in the chunks that repeat one amount or one laugh
MaxRepeat == 11
\* longest short message text, in runes, of a message event
MaxEvRunes == 3
MaxInv == 2
MaxDeliveries == 2
MaxActions == 2
MaxLongChunks == 2

(***************************************************************************)
(* Generic helpers.                                                        *)
(***************************************************************************)
SeqsUpTo(S, n) == UNION {[1..k -> S] : k \in 0..n}

Last(s) == s[Len(s)]

MaxOf(S) == CHOOSE x \in S : \A y \in S : y <= x
MinOf(S) == CHOOSE x \in S : \A y \in S : x <= y

\* s[lo:hi] of Go: 0-based, hi exclusive
SliceAfter(s, lo, hi) == SubSeq(s, lo + 2, hi)

Slice(s, lo, hi) == SubSeq(s, lo + 1, hi)

(***************************************************************************)
(* UTF-8.                                                                  *)
(***************************************************************************)
\* the runes the messages of the split model are made of:
\* 'a', '\n', U+00E9 (2 bytes), U+AC00 (3 bytes), U+1F600 (4 bytes)
SplitRunes == {97, 10, 233, 44032, 128512}

\* []byte(string(r)): the UTF-8 encoding of one rune
EncodeRune(r) ==
    IF r < 128 THEN <<r>>
    ELSE IF r < 2048 THEN <<192 + (r \div 64), 128 + (r % 64)>>
    ELSE IF r < 65536 THEN
        <<224 + (r \div 4096), 128 + ((r \div 64) % 64), 128 + (r % 64)>>
    ELSE <<240 + (r \div 262144), 128 + ((r \div 4096) % 64),
           128 + ((r \div 64) % 64), 128 + (r % 64)>>

RECURSIVE EncodeRunes(_)
EncodeRunes(rs) ==
    IF rs = <<>> THEN <<>> ELSE EncodeRune(rs[1]) \o EncodeRunes(Tail(rs))

\* (b & 0xC0) == 0x80
isUTF8Continuation(b) == (b \div 64) = 2

\* number of bytes the character led by byte b occupies; 0 when b leads nothing
LeadWidth(b) ==
    IF b < 128 THEN 1
    ELSE IF b \div 32 = 6 THEN 2
    ELSE IF b \div 16 = 14 THEN 3
    ELSE IF b \div 8 = 30 THEN 4
    ELSE 0

\* utf8.Valid at the level of structure: every character is a lead byte
\* followed by exactly its continuation bytes
RECURSIVE ValidUTF8(_)
ValidUTF8(bs) ==
    IF bs = <<>> THEN TRUE
    ELSE LET w == LeadWidth(bs[1])
         IN /\ w > 0
            /\ Len(bs) >= w
            /\ \A k \in 2..w : isUTF8Continuation(bs[k])
            /\ ValidUTF8(SubSeq(bs, w + 1, Len(bs)))

(***************************************************************************)
(* splitByNewlineChunk(msg, minB, maxB)                                    *)
(***************************************************************************)
\* for cut > minB && data[cut] != '\n' { cut-- }
RECURSIVE ScanNewline(_, _, _)
ScanNewline(d, cut, lo) ==
    IF cut > lo /\ d[cut + 1] # 10 THEN ScanNewline(d, cut - 1, lo) ELSE cut

\* a variant that falls back to the lower limit
FallbackCutAtMin(cut, lo, hi) == IF cut <= lo THEN lo ELSE cut

\* if cut <= minB { cut = maxB }
FallbackCut(cut, lo, hi) == IF cut <= lo THEN hi ELSE cut

\* for cut > 0 && isUTF8Continuation(data[cut]) { cut-- }
RECURSIVE AdjustUTF8Loop(_, _)
AdjustUTF8Loop(d, cut) ==
    IF cut > 0 /\ isUTF8Continuation(d[cut + 1])
    THEN AdjustUTF8Loop(d, cut - 1) ELSE cut

AdjustUTF8None(d, cut) == cut

\* a variant that advances to the next character start instead of retreating
RECURSIVE AdjustUTF8Forward(_, _)
AdjustUTF8Forward(d, cut) ==
    IF cut < Len(d) /\ isUTF8Continuation(d[cut + 1])
    THEN AdjustUTF8Forward(d, cut + 1) ELSE cut

AdjustUTF8(d, cut) == AdjustUTF8Loop(d, cut)

\* cut := maxB, then the newline scan
ScanFromAbove(d, lo, hi) == ScanNewline(d, hi - 1, lo)
ScanStart(d, lo, hi) == ScanNewline(d, hi, lo)

\* the value of cut at parts = append(parts, string(data[:cut]))
CutPoint(d, lo, hi) == AdjustUTF8(d, FallbackCut(ScanStart(d, lo, hi), lo, hi))

SplitFresh ==
    /\ msg \in {EncodeRunes(rs) : rs \in SeqsUpTo(SplitRunes, MaxRunes)}
    /\ maxB \in 1..MaxMaxB
    /\ minB \in 0..(maxB - 1)
    /\ data = msg
    /\ parts = <<>>
    /\ spc = "entry"

\* if len(data) <= maxB { return []string{msg} }
SplitWhole ==
    /\ spc = "entry"
    /\ Len(data) <= maxB
    /\ parts' = <<msg>>
    /\ spc' = "done"
    /\ UNCHANGED <<msg, minB, maxB, data, protVars, pmVars, bbVars, reVars, hVars, auVars>>

\* var parts []string; control reaches the for statement
SplitEnter ==
    /\ spc = "entry"
    /\ Len(data) > maxB
    /\ spc' = "loop"
    /\ UNCHANGED <<msg, minB, maxB, data, parts, protVars, pmVars, bbVars, reVars, hVars, auVars>>

\* if len(data) <= maxB { parts = append(parts, string(data)); break }
SplitLast ==
    /\ spc = "loop"
    /\ Len(data) > 0
    /\ Len(data) <= maxB
    /\ parts' = Append(parts, data)
    /\ spc' = "done"
    /\ UNCHANGED <<msg, minB, maxB, data, protVars, pmVars, bbVars, reVars, hVars, auVars>>

\* one iteration that cuts: parts = append(parts, data[:cut]); data = data[cut:]
SplitCut ==
    /\ spc = "loop"
    /\ Len(data) > maxB
    /\ Len(parts) < MaxParts
    /\ LET cut == CutPoint(data, minB, maxB)
       IN /\ parts' = Append(parts, Slice(data, 0, cut))
          /\ data' = Slice(data, cut, Len(data))
    /\ UNCHANGED <<msg, minB, maxB, spc, protVars, pmVars, bbVars, reVars, hVars, auVars>>

SplitNext == SplitWhole \/ SplitEnter \/ SplitLast \/ SplitCut

(***************************************************************************)
(* Regular expressions and tables of translate-bot.                        *)
(* Runes: '_' 95, 'C' 67, 'U' 85, 'R' 82, 'L' 76, 'A' 65, 'w' 119,         *)
(* '.' 46, ',' 44, ' ' 32, TAB 9; U+B9CC man, U+CC9C cheon, U+C5B5 eok,    *)
(* U+C870 jo, U+C6D0 won; U+4E07, U+5343, U+5104, U+5146 and U+5186 yen;   *)
(* U+314B kieuk, U+314E hieut.                                             *)
(***************************************************************************)
\* \d of Go's regexp: an ASCII digit
IsDigit(r) == r \in 48..57

\* [\d,.]
IsNumberRune(r) == IsDigit(r) \/ r = 44 \/ r = 46

\* \s of Go's regexp: [\t\n\f\r ]
IsRegexSpace(r) == r \in {9, 10, 12, 13, 32}

\* unicode.IsSpace, which strings.TrimSpace strips
IsUnicodeSpace(r) ==
    r \in {9, 10, 11, 12, 13, 32, 133, 160, 5760, 8232, 8233, 8239, 8287, 12288}
          \cup (8192..8202)

\* the first position >= i of t that holds no [\d,.]
RECURSIVE SkipNumber(_, _)
SkipNumber(t, i) ==
    IF i <= Len(t) /\ IsNumberRune(t[i]) THEN SkipNumber(t, i + 1) ELSE i

\* the first position >= i of t that holds no \s
RECURSIVE SkipSpace(_, _)
SkipSpace(t, i) ==
    IF i <= Len(t) /\ IsRegexSpace(t[i]) THEN SkipSpace(t, i + 1) ELSE i

\* the first position >= i of t that does not hold rune r
RECURSIVE SkipRune(_, _, _)
SkipRune(t, i, r) ==
    IF i <= Len(t) /\ t[i] = r THEN SkipRune(t, i + 1, r) ELSE i

\* the big units and the base unit of koreanWonRegex / japaneseYenRegex
BigUnits(tl) ==
    IF tl = "ja" THEN {47564, 52380, 50613, 51312}
    ELSE {19975, 21315, 20740, 20806}

BaseUnit(tl) == IF tl = "ja" THEN 50896 ELSE 20870

\* wonToJapanese and yenToKorean, as sets of <<unit, target unit>>
wonToJapanese ==
    { << <<47564, 50896>>, <<19975, 12454, 12457, 12531>> >>,
      << <<52380, 50896>>, <<21315, 12454, 12457, 12531>> >>,
      << <<50613, 50896>>, <<20740, 12454, 12457, 12531>> >>,
      << <<51312, 50896>>, <<20806, 12454, 12457, 12531>> >>,
      << <<50896>>, <<12454, 12457, 12531>> >> }

yenToKorean ==
    { << <<19975, 20870>>, <<47564, 50644>> >>,
      << <<21315, 20870>>, <<52380, 50644>> >>,
      << <<20740, 20870>>, <<50613, 50644>> >>,
      << <<20806, 20870>>, <<51312, 50644>> >>,
      << <<20870>>, <<50644>> >> }

unitMapOf(tl) == IF tl = "ja" THEN wonToJapanese ELSE yenToKorean

MapHas(m, k) == \E p \in m : p[1] = k
MapGet(m, k) == (CHOOSE p \in m : p[1] = k)[2]

\* (\d[\d,.]*\s*)(B\s*U|...|U) tried at position s of t.  The classes of
\* the number, the blanks and the units are disjoint, so the greedy choice is
\* the only one that can match.  ok, the end of the match (exclusive) and the
\* two groups.
CurrencyMatchAt(t, s, tl) ==
    IF ~(s <= Len(t) /\ IsDigit(t[s]))
    THEN [ok |-> FALSE, end |-> s, g1 |-> <<>>, g2 |-> <<>>]
    ELSE LET u == SkipSpace(t, SkipNumber(t, s + 1))
             v == SkipSpace(t, u + 1)
         IN IF u <= Len(t) /\ t[u] \in BigUnits(tl)
                /\ v <= Len(t) /\ t[v] = BaseUnit(tl)
            THEN [ok |-> TRUE, end |-> v + 1,
                  g1 |-> SubSeq(t, s, u - 1), g2 |-> SubSeq(t, u, v)]
            ELSE IF u <= Len(t) /\ t[u] = BaseUnit(tl)
            THEN [ok |-> TRUE, end |-> u + 1,
                  g1 |-> SubSeq(t, s, u - 1), g2 |-> <<t[u]>>]
            ELSE [ok |-> FALSE, end |-> s, g1 |-> <<>>, g2 |-> <<>>]

\* strings.TrimSpace
RECURSIVE TrimLeft(_)
TrimLeft(t) ==
    IF t # <<>> /\ IsUnicodeSpace(t[1]) THEN TrimLeft(Tail(t)) ELSE t

RECURSIVE TrimRight(_)
TrimRight(t) ==
    IF t # <<>> /\ IsUnicodeSpace(t[Len(t)])
    THEN TrimRight(SubSeq(t, 1, Len(t) - 1)) ELSE t

TrimSpace(t) == TrimLeft(TrimRight(t))

\* strings.ReplaceAll(t, old, new), old not empty
\* the occurrences are taken from left to right, not overlapping; the text
\* before the leftmost one is copied as it is
RECURSIVE ReplaceAll(_, _, _)
ReplaceAll(t, old, new) ==
    LET hits == {i \in 1..(Len(t) - Len(old) + 1) :
                    SubSeq(t, i, i + Len(old) - 1) = old}
    IN IF hits = {} THEN t
       ELSE LET i == MinOf(hits)
            IN SubSeq(t, 1, i - 1) \o new
                \o ReplaceAll(SubSeq(t, i + Len(old), Len(t)), old, new)

\* strings.ReplaceAll(subs[2], " ", "")
StripBlanks(t) == ReplaceAll(t, <<32>>, <<>>)

\* %d of fmt.Sprintf
RECURSIVE Decimal(_)
Decimal(n) ==
    IF n < 10 THEN <<48 + n>> ELSE Decimal(n \div 10) \o <<48 + (n % 10)>>

\* fmt.Sprintf("__CUR%d__", i) and fmt.Sprintf("__LAU%d__", i)
CurPlaceholder(i) == <<95, 95, 67, 85, 82>> \o Decimal(i) \o <<95, 95>>
LauPlaceholderAsCur(i) == CurPlaceholder(i)
LauPlaceholder(i) == <<95, 95, 76, 65, 85>> \o Decimal(i) \o <<95, 95>>

\* strings.Repeat(string(r), n)
Repeat(r, n) == [k \in 1..n |-> r]

(***************************************************************************)
(* protectCurrency / restoreCurrency                                       *)
(***************************************************************************)
\* the function handed to ReplaceAllStringFunc, applied to one match with
\* the replacements collected so far
CurrencyCallback(match, tl, repl) ==
    LET subs == CurrencyMatchAt(match, 1, tl)
        number == TrimSpace(subs.g1)
        unit == StripBlanks(subs.g2)
    IN IF ~subs.ok THEN [text |-> match, repl |-> repl]
       ELSE IF ~MapHas(unitMapOf(tl), unit) THEN [text |-> match, repl |-> repl]
       ELSE [text |-> CurPlaceholder(Len(repl)),
             repl |-> Append(repl, number \o MapGet(unitMapOf(tl), unit))]

\* re.ReplaceAllStringFunc(text, callback): the matches from left to right,
\* not overlapping, everything between them copied
\* (i is where the search goes on, s the leftmost start of a match from i)
RECURSIVE ReplaceCurrency(_, _, _, _, _)
ReplaceCurrency(t, i, tl, out, repl) ==
    LET starts == {j \in i..Len(t) : CurrencyMatchAt(t, j, tl).ok}
    IN IF starts = {} THEN [text |-> out \o SubSeq(t, i, Len(t)), repl |-> repl]
       ELSE LET s == MinOf(starts)
                m == CurrencyMatchAt(t, s, tl)
                r == CurrencyCallback(SubSeq(t, s, m.end - 1), tl, repl)
            IN ReplaceCurrency(t, m.end, tl,
                               out \o SubSeq(t, i, s - 1) \o r.text, r.repl)

protectCurrency(t, tl) ==
    IF tl \in {"ja", "ko"} THEN ReplaceCurrency(t, 1, tl, <<>>, <<>>)
    ELSE [text |-> t, repl |-> <<>>]

\* for i, replacement := range replacements { text = ReplaceAll(...) }
RECURSIVE RestoreCurrencyFrom(_, _, _)
RestoreCurrencyFrom(t, repl, i) ==
    IF i > Len(repl) THEN t
    ELSE RestoreCurrencyFrom(ReplaceAll(t, CurPlaceholder(i - 1), repl[i]),
                             repl, i + 1)

restoreCurrency(t, repl) == RestoreCurrencyFrom(t, repl, 1)

(***************************************************************************)
(* protectLaughter / restoreLaughter                                       *)
(***************************************************************************)
\* [ㅋ]{2,}|[ㅎ]{2,} tried at position s: the end of the match, or s
KoreanLaughEnd(t, s) ==
    IF s <= Len(t) /\ t[s] \in {12619, 12622} /\ SkipRune(t, s, t[s]) >= s + 2
    THEN SkipRune(t, s, t[s]) ELSE s

\* w{3,} tried at position s: the end of the match, or s
JapaneseLaughEnd(t, s) ==
    IF SkipRune(t, s, 119) >= s + 3 THEN SkipRune(t, s, 119) ELSE s

\* koreanLaughRegex.ReplaceAllStringFunc(text, callback)
\* (the matches from left to right, everything between them copied)
RECURSIVE ReplaceKoreanLaugh(_, _, _, _)
ReplaceKoreanLaugh(t, i, out, repl) ==
    LET starts == {j \in i..Len(t) : KoreanLaughEnd(t, j) > j}
    IN IF starts = {} THEN [text |-> out \o SubSeq(t, i, Len(t)), repl |-> repl]
       ELSE LET s == MinOf(starts)
                e == KoreanLaughEnd(t, s)
            IN ReplaceKoreanLaugh(t, e,
                   out \o SubSeq(t, i, s - 1) \o LauPlaceholder(Len(repl)),
                   Append(repl, Repeat(119, e - s)))

\* japaneseLaughRegex.FindAllStringIndex(text, -1), as <<start, end>> pairs
RECURSIVE FindJapaneseLaugh(_, _)
FindJapaneseLaugh(t, i) ==
    LET starts == {j \in i..Len(t) : JapaneseLaughEnd(t, j) > j}
    IN IF starts = {} THEN <<>>
       ELSE LET s == MinOf(starts)
                e == JapaneseLaughEnd(t, s)
            IN <<<<s, e>>>> \o FindJapaneseLaugh(t, e)

\* the www. test: end < len(text) && text[end] == '.'
FollowedByDot(t, e) == e <= Len(t) /\ t[e] = 46

\* the loop over indices: k is the next index, prev the position copied up to
RECURSIVE JapaneseLaughLoop(_, _, _, _, _, _)
JapaneseLaughLoop(t, indices, k, prev, buf, repl) ==
    IF k > Len(indices)
    THEN [text |-> buf \o SubSeq(t, prev, Len(t)), repl |-> repl]
    ELSE LET start == indices[k][1]
             end == indices[k][2]
         IN IF FollowedByDot(t, end)
            THEN JapaneseLaughLoop(t, indices, k + 1, end,
                                   buf \o SubSeq(t, prev, end - 1), repl)
            ELSE JapaneseLaughLoop(t, indices, k + 1, end,
                                   buf \o SubSeq(t, prev, start - 1)
                                       \o LauPlaceholder(Len(repl)),
                                   Append(repl, Repeat(12619, end - start)))

protectLaughter(t, tl) ==
    IF tl = "ja" THEN ReplaceKoreanLaugh(t, 1, <<>>, <<>>)
    ELSE IF tl = "ko"
    THEN LET indices == FindJapaneseLaugh(t, 1)
         IN IF indices = <<>> THEN [text |-> t, repl |-> <<>>]
            ELSE JapaneseLaughLoop(t, indices, 1, 1, <<>>, <<>>)
    ELSE [text |-> t, repl |-> <<>>]

\* for i, replacement := range replacements { text = ReplaceAll(...) }
RECURSIVE RestoreLaughterFrom(_, _, _)
RestoreLaughterFrom(t, repl, i) ==
    IF i > Len(repl) THEN t
    ELSE RestoreLaughterFrom(ReplaceAll(t, LauPlaceholder(i - 1), repl[i]),
                             repl, i + 1)

restoreLaughter(t, repl) == RestoreLaughterFrom(t, repl, 1)

(***************************************************************************)
(* The protect functions applied to one chunk.                             *)
(***************************************************************************)
RECURSIVE Flatten(_)
Flatten(ss) == IF ss = <<>> THEN <<>> ELSE ss[1] \o Flatten(Tail(ss))

\* the pieces the chunks of the model are composed of: one set around
\* amounts, one around laughs; both hold a literal placeholder
AmountFrags(tl) ==
    IF tl = "ja"
    THEN { <<49>>, <<50, 44, 53, 32>>, <<47564>>, <<9>>, <<32>>, <<50896>>,
           CurPlaceholder(0) }
    ELSE { <<49>>, <<50, 46, 53, 32>>, <<19975>>, <<9>>, <<32>>, <<20870>>,
           CurPlaceholder(0) }

LaughFrags(tl) ==
    IF tl = "ja"
    THEN { <<12619>>, <<12619, 12619>>, <<12622, 12622, 12622>>, <<119>>,
           <<32>>, <<49, 50896>>, LauPlaceholder(0) }
    ELSE { <<119>>, <<119, 119, 119>>, <<46>>, <<12619>>,
           <<32>>, <<49, 20870>>, LauPlaceholder(0) }

\* the k-th amount, the k-th laugh and a blank
RepeatUnit(tl, k) ==
    IF tl = "ja"
    THEN Decimal(k) \o <<50896>> \o Repeat(12619, 2 + (k % 2)) \o <<32>>
    ELSE Decimal(k) \o <<20870>> \o Repeat(119, 3 + (k % 2)) \o <<32>>

ChunkTexts(tl) ==
    {Flatten(fs) : fs \in SeqsUpTo(AmountFrags(tl), MaxFrags)}
        \cup {Flatten(fs) : fs \in SeqsUpTo(LaughFrags(tl), MaxFrags)}
        \cup {Flatten([k \in 1..n |-> RepeatUnit(tl, k)]) : n \in 1..MaxRepeat}

ProtFresh ==
    /\ targetLang \in {"ja", "ko"}
    /\ text \in ChunkTexts(targetLang)
    /\ cur = text
    /\ currencyRepls = <<>>
    /\ laughterRepls = <<>>
    /\ ops = <<>>

Applied(op) == \E k \in 1..Len(ops) : ops[k] = op

\* chunks[i], currencyRepls[i] = protectCurrency(chunk, tl)
ProtectCurrency ==
    /\ ops = <<>>
    /\ LET r == protectCurrency(cur, targetLang)
       IN cur' = r.text /\ currencyRepls' = r.repl
    /\ ops' = Append(ops, "protectCurrency")
    /\ UNCHANGED <<text, targetLang, laughterRepls, splitVars, pmVars, bbVars, reVars, hVars, auVars>>

\* chunks[i], laughterRepls[i] = protectLaughter(chunks[i], tl)
ProtectLaughter ==
    /\ ops \in {<<>>, <<"protectCurrency">>}
    /\ LET r == protectLaughter(cur, targetLang)
       IN cur' = r.text /\ laughterRepls' = r.repl
    /\ ops' = Append(ops, "protectLaughter")
    /\ UNCHANGED <<text, targetLang, currencyRepls, splitVars, pmVars, bbVars, reVars, hVars, auVars>>

\* translated[i] = restoreLaughter(translated[i], laughterRepls[i])
RestoreLaughter ==
    /\ Applied("protectLaughter")
    /\ ~Applied("restoreLaughter")
    /\ cur' = restoreLaughter(cur, laughterRepls)
    /\ ops' = Append(ops, "restoreLaughter")
    /\ UNCHANGED <<text, targetLang, currencyRepls, laughterRepls, splitVars, pmVars, bbVars, reVars, hVars, auVars>>

\* translated[i] = restoreCurrency(translated[i], currencyRepls[i])
RestoreCurrency ==
    /\ Applied("protectCurrency")
    /\ ~Applied("restoreCurrency")
    /\ cur' = restoreCurrency(cur, currencyRepls)
    /\ ops' = Append(ops, "restoreCurrency")
    /\ UNCHANGED <<text, targetLang, currencyRepls, laughterRepls, splitVars, pmVars, bbVars, reVars, hVars, auVars>>

ProtNext ==
    ProtectCurrency \/ ProtectLaughter \/ RestoreLaughter \/ RestoreCurrency

(***************************************************************************)
(* determineLang                                                           *)
(***************************************************************************)
\* \p{Hangul}: the Hangul script (Jamo, compatibility Jamo, syllables, ...)
IsHangul(r) ==
    \/ r \in 4352..4607 \/ r \in 12334..12335 \/ r \in 12593..12686
    \/ r \in 12800..12830 \/ r \in 12896..12926 \/ r \in 43360..43388
    \/ r \in 44032..55203 \/ r \in 55216..55238 \/ r \in 55243..55291
    \/ r \in 65440..65470 \/ r \in 65474..65479 \/ r \in 65482..65487
    \/ r \in 65490..65495 \/ r \in 65498..65500

\* [\p{Hiragana}\p{Katakana}]
IsKana(r) ==
    \/ r \in 12353..12438 \/ r \in 12445..12447
    \/ r \in 12449..12538 \/ r \in 12541..12543 \/ r \in 12784..12799
    \/ r \in 13008..13054 \/ r \in 13056..13143
    \/ r \in 65382..65391 \/ r \in 65393..65437

\* koreanRegex.MatchString(s), japaneseRegex.MatchString(s)
hasKorean(t) == \E i \in 1..Len(t) : IsHangul(t[i])
hasJapanese(t) == \E i \in 1..Len(t) : IsKana(t[i])

\* a variant without the case for both scripts
determineLangKoreanFirst(t) ==
    IF hasKorean(t) THEN "ja" ELSE IF hasJapanese(t) THEN "ko" ELSE ""

determineLang(t) ==
    IF hasKorean(t) /\ hasJapanese(t) THEN ""
    ELSE IF hasKorean(t) THEN "ja"
    ELSE IF hasJapanese(t) THEN "ko"
    ELSE ""

(***************************************************************************)
(* processMessage                                                          *)
(***************************************************************************)
\* the chunk limits processMessage hands to splitByNewlineChunk
MinChunkBytes == 1600
MaxChunkBytes == 1800

\* the runes of a Go string read from its bytes; U+FFFD for a byte that
\* starts no character
RECURSIVE DecodeRunes(_)
DecodeRunes(bs) ==
    IF bs = <<>> THEN <<>>
    ELSE LET w == LeadWidth(bs[1])
             ok == w > 0 /\ Len(bs) >= w
                   /\ \A k \in 2..w : isUTF8Continuation(bs[k])
         IN IF ~ok THEN <<65533>> \o DecodeRunes(Tail(bs))
            ELSE <<(CASE w = 1 -> bs[1]
                      [] w = 2 -> (bs[1] - 192) * 64 + (bs[2] - 128)
                      [] w = 3 -> (bs[1] - 224) * 4096 + (bs[2] - 128) * 64
                                  + (bs[3] - 128)
                      [] w = 4 -> (bs[1] - 240) * 262144 + (bs[2] - 128) * 4096
                                  + (bs[3] - 128) * 64 + (bs[4] - 128))>>
                 \o DecodeRunes(SubSeq(bs, w + 1, Len(bs)))

\* the for loop of splitByNewlineChunk run to its end
RECURSIVE SplitLoop(_, _, _, _)
SplitLoop(d, lo, hi, acc) ==
    IF Len(d) <= hi THEN Append(acc, d)
    ELSE LET cut == CutPoint(d, lo, hi)
         IN SplitLoop(Slice(d, cut, Len(d)), lo, hi, Append(acc, Slice(d, 0, cut)))

\* splitByNewlineChunk(msg, minB, maxB) on a string given by its runes
splitByNewlineChunk(t, lo, hi) ==
    LET d == EncodeRunes(t)
        bs == IF Len(d) <= hi THEN <<d>> ELSE SplitLoop(d, lo, hi, <<>>)
    IN [i \in 1..Len(bs) |-> DecodeRunes(bs[i])]

\* the loop over chunks: protectCurrency, then protectLaughter on its result
ProtectChunk(chunk, lg) ==
    LET c == protectCurrency(chunk, lg)
        l == protectLaughter(c.text, lg)
    IN [text |-> l.text, currencyRepls |-> c.repl, laughterRepls |-> l.repl]

ProtectChunks(chunks, lg) == [i \in 1..Len(chunks) |-> ProtectChunk(chunks[i], lg)]

\* what the translation service answers for one chunk: its own text, in
\* which the model keeps what it was given after a mark (U+2192)
TranslatedText(chunk) == <<8594>> \o chunk

\* strings.Join(translated, "\n\n")
RECURSIVE Join(_)
Join(ss) ==
    IF ss = <<>> THEN <<>>
    ELSE IF Len(ss) = 1 THEN ss[1]
    ELSE ss[1] \o <<10, 10>> \o Join(Tail(ss))

\* the loop over translated: restoreLaughter, then restoreCurrency
RestoreChunk(t, p) ==
    restoreCurrency(restoreLaughter(t, p.laughterRepls), p.currencyRepls)

\* a variant that always answers under the message itself
ThreadTSOwn(e) == e.TimeStamp

\* threadTS := ev.ThreadTimeStamp; if threadTS == "" { threadTS = ev.TimeStamp }
ThreadTS(e) == IF e.ThreadTimeStamp = "" THEN e.TimeStamp ELSE e.ThreadTimeStamp

\* the ways translateChunks returns an error
TranslateFailures ==
    {"credentials", "token", "http", "timeout", "status", "body", "count"}

\* the runes of the message texts: Hangul syllable (won), Hangul letter
\* (kieuk), Hiragana, Katakana, Latin, Han, digit.  Every text of the model
\* fits one chunk.
EvRunes == {50896, 12619, 12354, 12450, 97, 28450, 49}

EvTexts == SeqsUpTo(EvRunes, MaxEvRunes)

\* a processMessage that takes every message for a user's
IsBotMessageNever(e) == FALSE

\* ev.BotID != ""
IsBotMessage(e) == e.BotID # ""

PmFresh ==
    /\ ev \in [BotID : {"", "B1"}, Text : EvTexts, Channel : {"C1", "C2"},
               TimeStamp : {"100.1"}, ThreadTimeStamp : {"", "90.0"}]
    /\ lang = "unset"
    /\ translateCalls = <<>>
    /\ slackPosts = <<>>
    /\ ret = "none"
    /\ ppc = "received"

\* if ev.BotID != "" { return nil }
PM_IgnoreBot ==
    /\ ppc = "received"
    /\ IsBotMessage(ev)
    /\ ret' = "nil"
    /\ ppc' = "done"
    /\ UNCHANGED <<ev, lang, translateCalls, slackPosts, splitVars, protVars, bbVars, reVars, hVars, auVars>>

\* tl := determineLang(ev.Text); if tl == "" { return nil }
PM_Skip ==
    /\ ppc = "received"
    /\ ~IsBotMessage(ev)
    /\ determineLang(ev.Text) = ""
    /\ lang' = determineLang(ev.Text)
    /\ ret' = "nil"
    /\ ppc' = "done"
    /\ UNCHANGED <<ev, translateCalls, slackPosts, splitVars, protVars, bbVars, reVars, hVars, auVars>>

\* split, protect, translateChunks returns an error: return err
PM_TranslateFails ==
    /\ ppc = "received"
    /\ ~IsBotMessage(ev)
    /\ determineLang(ev.Text) # ""
    /\ \E failure \in TranslateFailures :
         LET lg == determineLang(ev.Text)
             chunks == ProtectChunks(
                 splitByNewlineChunk(ev.Text, MinChunkBytes, MaxChunkBytes), lg)
         IN /\ lang' = lg
            /\ translateCalls' = Append(translateCalls,
                   [chunks |-> [i \in 1..Len(chunks) |-> chunks[i].text],
                    targetLang |-> lg, result |-> failure])
    /\ ret' = "err"
    /\ ppc' = "done"
    /\ UNCHANGED <<ev, slackPosts, splitVars, protVars, bbVars, reVars, hVars, auVars>>

\* split, protect, translate, restore, join, post in the thread
PM_Post ==
    /\ ppc = "received"
    /\ ~IsBotMessage(ev)
    /\ determineLang(ev.Text) # ""
    /\ \E postResult \in {"nil", "err"} :
         LET lg == determineLang(ev.Text)
             chunks == ProtectChunks(
                 splitByNewlineChunk(ev.Text, MinChunkBytes, MaxChunkBytes), lg)
             translated == [i \in 1..Len(chunks) |->
                 RestoreChunk(TranslatedText(chunks[i].text), chunks[i])]
         IN /\ lang' = lg
            /\ translateCalls' = Append(translateCalls,
                   [chunks |-> [i \in 1..Len(chunks) |-> chunks[i].text],
                    targetLang |-> lg, result |-> "ok"])
            /\ slackPosts' = Append(slackPosts,
                   [channel |-> ev.Channel, text |-> Join(translated),
                    ts |-> ThreadTS(ev)])
            /\ ret' = postResult
    /\ ppc' = "done"
    /\ UNCHANGED <<ev, splitVars, protVars, bbVars, reVars, hVars, auVars>>

PmNext == PM_IgnoreBot \/ PM_Skip \/ PM_TranslateFails \/ PM_Post

(***************************************************************************)
(* bamboo-forest: handleViewSubmission, postNewMessage, postThreadReply    *)
(*                                                                         *)
(* A payload holds User, View.CallbackID, View.PrivateMetadata and, for    *)
(* each input block of View.State.Values, <<>> when the block (or its      *)
(* action) is missing and <<value>> when it is there.  PrivateMetadata is  *)
(* a sequence of pieces, the piece "|" standing for the separator.         *)
(***************************************************************************)
TargetChannelID == "C09SQ9N05MZ"
CallbackNewPost == "bamboo_new_post"
CallbackNewThread == "bamboo_new_thread"

\* message := ""; if the block and the input are there { message = Value }
Message(p) == IF p.message = <<>> THEN "" ELSE p.message[1]

Nickname(p) == IF p.name = <<>> THEN "" ELSE p.name[1]

\* var mentions []string; ... mentions = mentionInput.SelectedUsers
Mentions(p) == IF p.mention = <<>> THEN <<>> ELSE p.mention[1]

Category(p) == IF p.category = <<>> THEN "" ELSE p.category[1]

\* urgency := "normal"; a selected option with a value replaces it
Urgency(p) ==
    IF p.urgency = <<>> \/ p.urgency[1] = "" THEN "normal" ELSE p.urgency[1]

\* confirmed = len(confirmInput.SelectedOptions) > 0
ConfirmedWhenPresent(p) == p.confirm # <<>>
Confirmed(p) == p.confirm # <<>> /\ p.confirm[1] > 0

\* categoryLabels[category], urgencyLabels[urgency]: "" for a missing key
categoryLabel(c) ==
    IF c \in {"suggestion", "question", "praise", "concern", "other"}
    THEN <<"label", c>> ELSE <<>>

urgencyLabel(u) ==
    IF u \in {"urgent", "normal", "low"} THEN <<"label", u>> ELSE <<>>

\* displayName := nickname; if displayName == "" { displayName = "익명" }
DisplayName(nickname) == IF nickname = "" THEN "anonymous" ELSE nickname

\* the mention prefix: "<@U1> <@U2>\n\n", or "" without mentions
MentionText(mentions) ==
    IF Len(mentions) > 0
    THEN <<[k \in 1..Len(mentions) |-> <<"<@", mentions[k], ">">>], "\n\n">>
    ELSE <<>>

buildNewPostBlocks(message, nickname, mentions, category, urgency) ==
    << [type |-> "context", block_id |-> "",
        text |-> <<DisplayName(nickname), categoryLabel(category),
                   urgencyLabel(urgency)>>],
       [type |-> "section", block_id |-> "",
        text |-> <<MentionText(mentions), message>>],
       [type |-> "context", block_id |-> "emoji_counts", text |-> <<0, 0, 0, 0>>],
       [type |-> "actions", block_id |-> "emoji_actions",
        text |-> <<"bamboo_emoji_thumbsup", "bamboo_emoji_thumbsdown",
                   "bamboo_emoji_hug", "bamboo_emoji_flex">>],
       [type |-> "divider", block_id |-> "", text |-> <<>>],
       [type |-> "actions", block_id |-> "",
        text |-> <<"bamboo_reply", "bamboo_complete">>] >>

buildThreadReplyBlocks(message, nickname, mentions) ==
    << [type |-> "context", block_id |-> "", text |-> <<DisplayName(nickname)>>],
       [type |-> "section", block_id |-> "",
        text |-> <<MentionText(mentions), message>>],
       [type |-> "divider", block_id |-> "", text |-> <<>>],
       [type |-> "actions", block_id |-> "", text |-> <<"bamboo_reply">>] >>

\* strings.Split(metadata, "|")
RECURSIVE SplitOnBar(_, _)
SplitOnBar(m, acc) ==
    IF m = <<>> THEN <<acc>>
    ELSE IF m[1] = "|" THEN <<acc>> \o SplitOnBar(Tail(m), <<>>)
    ELSE SplitOnBar(Tail(m), Append(acc, m[1]))

\* the PostMessage call of postNewMessage, with a variant that shows the
\* submitting user when no nickname was given
NewPostCallSigned(p) ==
    [channel |-> TargetChannelID,
     blocks |-> buildNewPostBlocks(Message(p),
                    IF Nickname(p) = "" THEN p.User ELSE Nickname(p),
                    Mentions(p), Category(p), Urgency(p)),
     ts |-> <<>>]

NewPostCall(p) ==
    [channel |-> TargetChannelID,
     blocks |-> buildNewPostBlocks(Message(p), Nickname(p), Mentions(p),
                                   Category(p), Urgency(p)),
     ts |-> <<>>]

\* the PostMessage call of postThreadReply: channelID, threadTS := parts[0], parts[1]
ThreadReplyCall(p) ==
    LET pieces == SplitOnBar(p.PrivateMetadata, <<>>)
    IN [channel |-> pieces[1],
        blocks |-> buildThreadReplyBlocks(Message(p), Nickname(p), Mentions(p)),
        ts |-> pieces[2]]

\* respondWithError(message)
respondWithError(message) ==
    [StatusCode |-> 200, ContentType |-> "application/json",
     response_action |-> "errors", error |-> message, Err |-> "nil"]

\* events.LambdaFunctionURLResponse{StatusCode: 200}
respondOK ==
    [StatusCode |-> 200, ContentType |-> "", response_action |-> "", error |-> "",
     Err |-> "nil"]

Users == {"U1", "U2"}

ViewPayloads ==
    [User : Users,
     CallbackID : {CallbackNewPost, CallbackNewThread, "other"},
     PrivateMetadata : {<<"C1", "|", "100.1">>, <<"C1">>,
                        <<"C1", "|", "100.1", "|", "x">>},
     message : {<<>>, <<"">>, <<"hello">>},
     name : {<<>>, <<"3rd-year dev">>},
     mention : {<<>>, <<<<"U7", "U8">>>>},
     category : {<<>>, <<"question">>},
     urgency : {<<>>, <<"urgent">>},
     confirm : {<<>>, <<0>>, <<1>>}]

\* two submissions that differ at most in the submitting user
BbFresh ==
    /\ \E p \in ViewPayloads : \E u \in Users :
          bbIn = <<p, [p EXCEPT !.User = u]>>
    /\ bbLog = <<>>

\* the payload handleViewSubmission is called with next
NextPayload == bbIn[Len(bbLog) + 1]

Handled(p, calls, resp) ==
    /\ bbLog' = Append(bbLog, [payload |-> p, calls |-> calls, resp |-> resp])
    /\ UNCHANGED <<bbIn, splitVars, protVars, pmVars, reVars, hVars, auVars>>

\* if message == "" { return respondWithError(...) }
VS_NoMessage ==
    /\ Len(bbLog) < Len(bbIn)
    /\ Message(NextPayload) = ""
    /\ Handled(NextPayload, <<>>, respondWithError("enter a message"))

\* if !confirmed { return respondWithError(...) }
VS_NotConfirmed ==
    /\ Len(bbLog) < Len(bbIn)
    /\ Message(NextPayload) # ""
    /\ ~Confirmed(NextPayload)
    /\ Handled(NextPayload, <<>>, respondWithError("select the confirmation checkbox"))

\* case CallbackNewPost: if category == "" { return respondWithError(...) }
VS_NoCategory ==
    /\ Len(bbLog) < Len(bbIn)
    /\ Message(NextPayload) # ""
    /\ Confirmed(NextPayload)
    /\ NextPayload.CallbackID = CallbackNewPost
    /\ Category(NextPayload) = ""
    /\ Handled(NextPayload, <<>>, respondWithError("select a category"))

\* case CallbackNewPost: return app.postNewMessage(...)
VS_PostNew ==
    /\ Len(bbLog) < Len(bbIn)
    /\ Message(NextPayload) # ""
    /\ Confirmed(NextPayload)
    /\ NextPayload.CallbackID = CallbackNewPost
    /\ Category(NextPayload) # ""
    /\ \E err \in BOOLEAN :
          Handled(NextPayload, <<NewPostCall(NextPayload)>>,
                  IF err THEN respondWithError("posting failed") ELSE respondOK)

\* case CallbackNewThread: postThreadReply with len(parts) != 2
VS_BadMetadata ==
    /\ Len(bbLog) < Len(bbIn)
    /\ Message(NextPayload) # ""
    /\ Confirmed(NextPayload)
    /\ NextPayload.CallbackID = CallbackNewThread
    /\ Len(SplitOnBar(NextPayload.PrivateMetadata, <<>>)) # 2
    /\ Handled(NextPayload, <<>>, respondWithError("bad request"))

\* case CallbackNewThread: postThreadReply posts in the thread
VS_PostReply ==
    /\ Len(bbLog) < Len(bbIn)
    /\ Message(NextPayload) # ""
    /\ Confirmed(NextPayload)
    /\ NextPayload.CallbackID = CallbackNewThread
    /\ Len(SplitOnBar(NextPayload.PrivateMetadata, <<>>)) = 2
    /\ \E err \in BOOLEAN :
          Handled(NextPayload, <<ThreadReplyCall(NextPayload)>>,
                  IF err THEN respondWithError("reply failed") ELSE respondOK)

\* default: return events.LambdaFunctionURLResponse{StatusCode: 200}
VS_OtherCallback ==
    /\ Len(bbLog) < Len(bbIn)
    /\ Message(NextPayload) # ""
    /\ Confirmed(NextPayload)
    /\ NextPayload.CallbackID \notin {CallbackNewPost, CallbackNewThread}
    /\ Handled(NextPayload, <<>>, respondOK)

BbNext ==
    \/ VS_NoMessage \/ VS_NotConfirmed \/ VS_NoCategory \/ VS_PostNew
    \/ VS_BadMetadata \/ VS_PostReply \/ VS_OtherCallback

(***************************************************************************)
(* bamboo-forest: handleEmojiReaction.  Every click on an emoji button is  *)
(* one invocation of the handler; invocations run side by side, and each   *)
(* call to Sheets or Slack is one step of its invocation.                  *)
(***************************************************************************)
Emojis == {"thumbsup", "hug"}
MessageTSs == {"100.1"}

\* generateReactionHash: the digest of userID + "|" + messageTS + "|" + emoji;
\* distinct inputs are taken to have distinct digests
generateReactionHash(userID, messageTS, emoji) ==
    <<"sha256", userID, "|", messageTS, "|", emoji>>

\* checkDuplicateReaction: is the hash in column A?
HashInSheet(hash) == \E k \in 1..Len(sheet) : sheet[k].hash = hash

\* getEmojiCounts: rows of the message, counted by emoji
RECURSIVE CountRows(_, _, _)
CountRows(rows, messageTS, emoji) ==
    IF rows = <<>> THEN 0
    ELSE (IF rows[1].ts = messageTS /\ rows[1].emoji = emoji THEN 1 ELSE 0)
         + CountRows(Tail(rows), messageTS, emoji)

getEmojiCounts(messageTS) == [e \in Emojis |-> CountRows(sheet, messageTS, e)]

NoCounts == [e \in Emojis |-> 0]

ReFresh ==
    /\ sheetsOn \in BOOLEAN
    /\ sheet = <<>>
    /\ inv = <<>>
    /\ updates = <<>>

Running(i) == i \in 1..Len(inv)

Goto(i, pc) == inv' = [inv EXCEPT ![i].pc = pc]

ReRest == <<splitVars, protVars, pmVars, bbVars, hVars, auVars>>

\* a user clicks an emoji button: handleBlockAction calls handleEmojiReaction
RE_Click ==
    /\ Len(inv) < MaxInv
    /\ \E u \in Users : \E ts \in MessageTSs : \E e \in Emojis :
          inv' = Append(inv, [pc |-> "start", user |-> u, ts |-> ts, emoji |-> e,
                              hash |-> generateReactionHash(u, ts, e),
                              counts |-> NoCounts])
    /\ UNCHANGED <<sheetsOn, sheet, updates, ReRest>>

\* if app.sheets == nil { return 200 }
RE_NoSheets ==
    /\ \E i \in 1..Len(inv) :
          /\ inv[i].pc = "start"
          /\ ~sheetsOn
          /\ Goto(i, "ignored")
    /\ UNCHANGED <<sheetsOn, sheet, updates, ReRest>>

\* checkDuplicateReaction finds the hash: return 200
RE_CheckDuplicate ==
    /\ \E i \in 1..Len(inv) :
          /\ inv[i].pc = "start"
          /\ sheetsOn
          /\ HashInSheet(inv[i].hash)
          /\ Goto(i, "duplicate")
    /\ UNCHANGED <<sheetsOn, sheet, updates, ReRest>>

\* checkDuplicateReaction does not find the hash
RE_CheckNew ==
    /\ \E i \in 1..Len(inv) :
          /\ inv[i].pc = "start"
          /\ sheetsOn
          /\ ~HashInSheet(inv[i].hash)
          /\ Goto(i, "record")
    /\ UNCHANGED <<sheetsOn, sheet, updates, ReRest>>

\* checkDuplicateReaction fails: (false, err), logged, and the handler goes on
RE_CheckFails ==
    /\ \E i \in 1..Len(inv) :
          /\ inv[i].pc = "start"
          /\ sheetsOn
          /\ Goto(i, "record")
    /\ UNCHANGED <<sheetsOn, sheet, updates, ReRest>>

\* recordReaction appends the row
RE_Record ==
    /\ \E i \in 1..Len(inv) :
          /\ inv[i].pc = "record"
          /\ sheet' = Append(sheet, [hash |-> inv[i].hash, ts |-> inv[i].ts,
                                     emoji |-> inv[i].emoji])
          /\ Goto(i, "counts")
    /\ UNCHANGED <<sheetsOn, updates, ReRest>>

\* recordReaction fails: respondWithSlackError
RE_RecordFails ==
    /\ \E i \in 1..Len(inv) :
          /\ inv[i].pc = "record"
          /\ Goto(i, "failed")
    /\ UNCHANGED <<sheetsOn, sheet, updates, ReRest>>

\* getEmojiCounts reads the sheet, or fails and leaves the zero counts
RE_Counts ==
    /\ \E i \in 1..Len(inv) : \E err \in BOOLEAN :
          /\ inv[i].pc = "counts"
          /\ inv' = [inv EXCEPT ![i].pc = "update",
                                ![i].counts = IF err THEN NoCounts
                                              ELSE getEmojiCounts(inv[i].ts)]
    /\ UNCHANGED <<sheetsOn, sheet, updates, ReRest>>

\* UpdateMessage with the emoji_counts block rewritten
RE_Update ==
    /\ \E i \in 1..Len(inv) : \E err \in BOOLEAN :
          /\ inv[i].pc = "update"
          /\ updates' = Append(updates, [ts |-> inv[i].ts, counts |-> inv[i].counts])
          /\ Goto(i, IF err THEN "failed" ELSE "done")
    /\ UNCHANGED <<sheetsOn, sheet, ReRest>>

\* the steps of the invocations under way
ReSteps ==
    \/ RE_NoSheets \/ RE_CheckDuplicate \/ RE_CheckNew
    \/ RE_CheckFails \/ RE_Record \/ RE_RecordFails \/ RE_Counts \/ RE_Update

ReNext == RE_Click \/ ReSteps

(***************************************************************************)
(* translate-bot: handler.  A request holds the x-slack-retry-num header   *)
(* ("" when absent), the state of its Slack signature, and its body: text  *)
(* that is no event, a url_verification event, an event_callback with a    *)
(* message event or with another inner event, or an event of another type. *)
(***************************************************************************)
Signatures == {"valid", "missing", "mismatch"}

\* a verification that lets every request through
verifyNothing(req) == "nil"

\* verifySlackSignature: nil for a valid signature, an error when the
\* headers are missing or stale (NewSecretsVerifier) or the digest differs
\* (Ensure)
verifySlackSignature(req) == IF req.sig = "valid" THEN "nil" ELSE "err"

\* return events.LambdaFunctionURLResponse{StatusCode: n}, nil
StatusOnly(n) == [StatusCode |-> n, ContentType |-> "", Body |-> "", Err |-> "nil"]

\* the texts of the message events delivered to the handler
HandlerTexts == SeqsUpTo(EvRunes, 1) \cup {<<49, 50896, 12619, 12619>>}

MessageEvents ==
    [BotID : {"", "B1"}, Text : HandlerTexts, Channel : {"C1"},
     TimeStamp : {"100.1"}, ThreadTimeStamp : {"", "90.0"}]

TranslateBodies ==
    {[kind |-> "garbage"], [kind |-> "url_verification", challenge |-> "ch41"],
     [kind |-> "event_callback", inner |-> "reaction_added"],
     [kind |-> "app_rate_limited"]}
    \cup {[kind |-> "event_callback", inner |-> "message", ev |-> e] :
             e \in MessageEvents}

TranslateRequests ==
    {[retry |-> r, sig |-> g, body |-> b] :
        r \in {"", "1"}, g \in Signatures, b \in TranslateBodies}

\* a handler that treats no request as a retry
IsRetryNever(req) == FALSE

\* event.Headers["x-slack-retry-num"] != ""
IsRetry(req) == req.retry # ""

\* a handler that reports the error of processMessage to Slack
AfterProcessMessageStrict(r) ==
    IF r = "err" THEN StatusOnly(500) ELSE StatusOnly(200)

\* if err := app.processMessage(ev); err != nil { log.Printf(...) }
\* ... return events.LambdaFunctionURLResponse{StatusCode: 200}, nil
AfterProcessMessage(r) == StatusOnly(200)

IsMessageCallback(b) == b.kind = "event_callback" /\ b.inner = "message"

\* the PostMessage calls made by handleViewSubmission so far
BbCalls == Flatten([i \in 1..Len(bbLog) |-> bbLog[i].calls])

\* the outbound calls made so far: translation requests, Slack messages of
\* translate-bot, Slack views and messages of bamboo-forest, Sheets reads
\* and writes (every one belongs to an invocation in inv), message updates
OutboundCalls ==
    [translate |-> Len(translateCalls), posts |-> Len(slackPosts),
     views |-> Len(hcalls), bamboo |-> Len(BbCalls),
     sheets |-> Len(sheet) + Len(inv), updates |-> Len(updates)]

Arrived(n) == [n |-> n] @@ OutboundCalls

ThFresh ==
    /\ bot = "translate-bot"
    /\ hreq \in TranslateRequests
    /\ hresp = "none"
    /\ hsteps = <<>>
    /\ hcalls = <<>>
    /\ hmark = [n |-> 1, translate |-> 0, posts |-> 0, views |-> 0,
                bamboo |-> 0, sheets |-> 0, updates |-> 0]
    /\ hpc = "arrived"

HRest == <<splitVars, protVars, bbVars, reVars, auVars>>

\* the handler returns without calling processMessage
Answer(steps, resp) ==
    /\ hsteps' = steps
    /\ hresp' = resp
    /\ hpc' = "answered"
    /\ UNCHANGED <<bot, hreq, hcalls, hmark, pmVars, HRest>>

\* if event.Headers["x-slack-retry-num"] != "" { return 200 }
TH_Retry ==
    /\ bot = "translate-bot" /\ hpc = "arrived"
    /\ IsRetry(hreq)
    /\ Answer(<<>>, StatusOnly(200))

\* verifySlackSignature fails: return 401
TH_BadSignature ==
    /\ bot = "translate-bot" /\ hpc = "arrived"
    /\ ~IsRetry(hreq)
    /\ verifySlackSignature(hreq) # "nil"
    /\ Answer(<<"verify">>, StatusOnly(401))

\* slackevents.ParseEvent fails: return 400
TH_ParseError ==
    /\ bot = "translate-bot" /\ hpc = "arrived"
    /\ ~IsRetry(hreq)
    /\ verifySlackSignature(hreq) = "nil"
    /\ hreq.body.kind = "garbage"
    /\ Answer(<<"verify", "parse">>, StatusOnly(400))

\* evt.Type == slackevents.URLVerification: answer the challenge
TH_Challenge ==
    /\ bot = "translate-bot" /\ hpc = "arrived"
    /\ ~IsRetry(hreq)
    /\ verifySlackSignature(hreq) = "nil"
    /\ hreq.body.kind = "url_verification"
    /\ Answer(<<"verify", "parse">>,
              [StatusCode |-> 200, ContentType |-> "text/plain",
               Body |-> hreq.body.challenge, Err |-> "nil"])

\* neither a challenge nor a callback with a message event: return 200
TH_NotMessage ==
    /\ bot = "translate-bot" /\ hpc = "arrived"
    /\ ~IsRetry(hreq)
    /\ verifySlackSignature(hreq) = "nil"
    /\ hreq.body.kind \notin {"garbage", "url_verification"}
    /\ ~IsMessageCallback(hreq.body)
    /\ Answer(<<"verify", "parse">>, StatusOnly(200))

\* a callback with a message event: app.processMessage(ev)
TH_ProcessMessage ==
    /\ bot = "translate-bot" /\ hpc = "arrived"
    /\ ~IsRetry(hreq)
    /\ verifySlackSignature(hreq) = "nil"
    /\ IsMessageCallback(hreq.body)
    /\ ev' = hreq.body.ev
    /\ lang' = "unset"
    /\ ret' = "none"
    /\ ppc' = "received"
    /\ hsteps' = <<"verify", "parse", "processMessage">>
    /\ hpc' = "processing"
    /\ UNCHANGED <<bot, hreq, hresp, hcalls, hmark, translateCalls, slackPosts, HRest>>

\* processMessage has returned; its error is logged: return 200
TH_Answer ==
    /\ bot = "translate-bot" /\ hpc = "processing"
    /\ ppc = "done"
    /\ hresp' = AfterProcessMessage(ret)
    /\ hpc' = "answered"
    /\ UNCHANGED <<bot, hreq, hsteps, hcalls, hmark, pmVars, HRest>>

NextRetryNum(r) == IF r = "" THEN "1" ELSE IF r = "1" THEN "2" ELSE "3"

\* the next request arrives at the same function
Deliver(req) ==
    /\ hmark.n < MaxDeliveries
    /\ hreq' = req
    /\ hresp' = "none"
    /\ hsteps' = <<>>
    /\ hmark' = Arrived(hmark.n + 1)
    /\ hpc' = "arrived"
    /\ ppc' = "idle"
    /\ UNCHANGED <<bot, hcalls, ev, lang, translateCalls, slackPosts, ret, HRest>>

\* Slack delivers the same event again, with x-slack-retry-num set
TH_Redeliver ==
    /\ bot = "translate-bot" /\ hpc = "answered"
    /\ Deliver([hreq EXCEPT !.retry = NextRetryNum(hreq.retry)])

\* Slack delivers the message event of the reply the bot has just posted;
\* a message posted with the bot token carries the bot's id
TH_DeliverOwnReply ==
    /\ bot = "translate-bot" /\ hpc = "answered"
    /\ Len(slackPosts) > hmark.posts
    /\ Deliver([retry |-> "", sig |-> "valid",
                body |-> [kind |-> "event_callback", inner |-> "message",
                          ev |-> [BotID |-> "B0", Text |-> Last(slackPosts).text,
                                  Channel |-> Last(slackPosts).channel,
                                  TimeStamp |-> "200.2",
                                  ThreadTimeStamp |-> Last(slackPosts).ts]]])

ThNext ==
    \/ TH_Retry \/ TH_BadSignature \/ TH_ParseError \/ TH_Challenge
    \/ TH_NotMessage \/ TH_ProcessMessage \/ TH_Answer
    \/ TH_Redeliver \/ TH_DeliverOwnReply

(***************************************************************************)
(* bamboo-forest: handler, handleSlashCommand, handleInteraction.  A       *)
(* request holds IsBase64Encoded, whether its body decodes, the state of   *)
(* its signature, and its decoded body: a /bamboo slash command, an        *)
(* interaction with a payload, or something else.  The interactions of the *)
(* model are view submissions, block actions (button clicks) and payloads  *)
(* of a type the handler ignores.  A Slack id or timestamp is a sequence   *)
(* of pieces of text, none of them the separator "|".                      *)
(***************************************************************************)
\* respondWithSlackError(message): 200, text/plain, "⚠️ " + message
\* a variant that reports the failure to the Lambda runtime
respondWithSlackErrorAsFailure(message) ==
    [StatusCode |-> 500, ContentType |-> "text/plain; charset=utf-8",
     Body |-> <<"U+26A0 U+FE0F", " ", message>>, Err |-> message]

respondWithSlackError(message) ==
    [StatusCode |-> 200, ContentType |-> "text/plain; charset=utf-8",
     Body |-> <<"U+26A0 U+FE0F", " ", message>>, Err |-> "nil"]

\* "요청을 처리할 수 없습니다."
MsgCannotProcess == "the request cannot be processed."
\* "인증에 실패했습니다."
MsgAuthFailed == "authentication failed."
\* "요청 정보가 부족합니다."
MsgIncomplete == "the request lacks information."
\* "모달을 열 수 없습니다. 잠시 후 다시 시도해주세요."
MsgNoModal == "the modal cannot be opened. try again later."

\* "답글 모달을 열 수 없습니다. 잠시 후 다시 시도해주세요."
MsgNoReplyModal == "the reply modal cannot be opened. try again later."
\* "처리완료 표시에 실패했습니다. 잠시 후 다시 시도해주세요."
MsgCompleteFailed == "marking as done failed. try again later."
\* "리액션 저장에 실패했습니다."
MsgReactionNotSaved == "saving the reaction failed."
\* "리액션 업데이트에 실패했습니다."
MsgReactionNotUpdated == "updating the reaction failed."

ActionReplyButton == "bamboo_reply"
ActionCompleteButton == "bamboo_complete"
EmojiActionIDs ==
    {"bamboo_emoji_thumbsup", "bamboo_emoji_thumbsdown", "bamboo_emoji_hug",
     "bamboo_emoji_flex"}

\* the buttons a click can carry: action_id and value
BlockActions ==
    {[ActionID |-> ActionReplyButton, Value |-> "reply"],
     [ActionID |-> ActionCompleteButton, Value |-> "complete"],
     [ActionID |-> "bamboo_emoji_thumbsup", Value |-> "thumbsup"],
     [ActionID |-> "elsewhere", Value |-> ""]}

\* the messages a button is clicked on: a root message and a reply in the
\* thread of 90.0
ClickedMessages ==
    {[Timestamp |-> <<"100", ".", "2">>, ThreadTimestamp |-> <<>>],
     [Timestamp |-> <<"100", ".", "2">>, ThreadTimestamp |-> <<"90", ".", "0">>]}

ClickPayloads ==
    {[json |-> "ok", Type |-> "block_actions", TriggerID |-> "T2", User |-> "U1",
      Channel |-> <<"C2">>, Message |-> m, actions |-> a] :
        m \in ClickedMessages, a \in SeqsUpTo(BlockActions, MaxActions)}

\* buildThreadModal: metadata := fmt.Sprintf("%s|%s", channelID, threadTS)
buildThreadModal(channelID, threadTS) ==
    [CallbackID |-> CallbackNewThread,
     PrivateMetadata |-> channelID \o <<"|">> \o threadTS]

\* threadTS := payload.Message.ThreadTimestamp;
\* if threadTS == "" { threadTS = payload.Message.Timestamp }
ReplyThreadTSOwn(m) == m.Timestamp
ReplyThreadTS(m) ==
    IF m.ThreadTimestamp = <<>> THEN m.Timestamp ELSE m.ThreadTimestamp

\* the view submissions delivered through the handler
HandlerPayloads ==
    {p \in ViewPayloads :
        p.User = "U1" /\ p.name = <<>> /\ p.mention = <<>> /\ p.urgency = <<>>}

BambooBodies ==
    {[kind |-> "slash", parses |-> FALSE, trigger_id |-> ""],
     [kind |-> "slash", parses |-> TRUE, trigger_id |-> ""],
     [kind |-> "slash", parses |-> TRUE, trigger_id |-> "T1"],
     [kind |-> "interaction", parses |-> FALSE, payload |-> [json |-> "missing"]],
     [kind |-> "interaction", parses |-> TRUE, payload |-> [json |-> "missing"]],
     [kind |-> "interaction", parses |-> TRUE, payload |-> [json |-> "malformed"]],
     [kind |-> "interaction", parses |-> TRUE,
      payload |-> [json |-> "ok", Type |-> "shortcut"]],
     [kind |-> "unknown"]}
    \cup {[kind |-> "interaction", parses |-> TRUE,
           payload |-> [json |-> "ok", Type |-> "view_submission",
                        callback |-> p]] :
             p \in HandlerPayloads}
    \cup {[kind |-> "interaction", parses |-> TRUE, payload |-> p] :
             p \in ClickPayloads}

BambooRequests ==
    {[isBase64 |-> e[1], decodes |-> e[2], sig |-> g, body |-> b] :
        e \in {<<FALSE, TRUE>>, <<TRUE, TRUE>>, <<TRUE, FALSE>>},
        g \in Signatures, b \in BambooBodies}

BhFresh ==
    /\ bot = "bamboo-forest"
    /\ hreq \in BambooRequests
    /\ hresp = "none"
    /\ hsteps = <<>>
    /\ hcalls = <<>>
    /\ hmark = [n |-> 1, translate |-> 0, posts |-> 0, views |-> 0,
                bamboo |-> 0, sheets |-> 0, updates |-> 0]
    /\ hpc = "arrived"

\* what the handler has done when it reaches the signature check
Decoded == IF hreq.isBase64 THEN <<"base64", "verify">> ELSE <<"verify">>

\* the request passes the decoding and the signature check
Verified ==
    /\ bot = "bamboo-forest" /\ hpc = "arrived"
    /\ ~hreq.isBase64 \/ hreq.decodes
    /\ verifySlackSignature(hreq) = "nil"

\* values.Get("payload") is not empty and json.Unmarshal accepts it
IsPayload(x) == x.json = "ok"

\* base64.StdEncoding.DecodeString fails
BH_Base64Fails ==
    /\ bot = "bamboo-forest" /\ hpc = "arrived"
    /\ hreq.isBase64 /\ ~hreq.decodes
    /\ Answer(<<"base64">>, respondWithSlackError(MsgCannotProcess))

\* verifySlackSignature fails
BH_BadSignature ==
    /\ bot = "bamboo-forest" /\ hpc = "arrived"
    /\ ~hreq.isBase64 \/ hreq.decodes
    /\ verifySlackSignature(hreq) # "nil"
    /\ Answer(Decoded, respondWithSlackError(MsgAuthFailed))

\* handleSlashCommand: url.ParseQuery fails, or trigger_id is empty
BH_SlashRejected ==
    /\ Verified
    /\ hreq.body.kind = "slash"
    /\ ~hreq.body.parses \/ hreq.body.trigger_id = ""
    /\ Answer(Decoded \o <<"route", "parse">>,
              IF ~hreq.body.parses THEN respondWithSlackError(MsgCannotProcess)
              ELSE respondWithSlackError(MsgIncomplete))

\* handleSlashCommand: app.slack.OpenView(triggerID, buildNewPostModal())
BH_SlashCommand ==
    /\ Verified
    /\ hreq.body.kind = "slash"
    /\ hreq.body.parses /\ hreq.body.trigger_id # ""
    /\ \E err \in BOOLEAN :
          /\ hcalls' = Append(hcalls, [api |-> "OpenView",
                                       trigger_id |-> hreq.body.trigger_id,
                                       view |-> CallbackNewPost,
                                       metadata |-> <<>>, ok |-> ~err])
          /\ hresp' = IF err THEN respondWithSlackError(MsgNoModal)
                      ELSE StatusOnly(200)
    /\ hsteps' = Decoded \o <<"route", "parse">>
    /\ hpc' = "answered"
    /\ UNCHANGED <<bot, hreq, hmark, pmVars, HRest>>

\* handleInteraction: the body or the payload cannot be read
BH_InteractionRejected ==
    /\ Verified
    /\ hreq.body.kind = "interaction"
    /\ ~hreq.body.parses \/ ~IsPayload(hreq.body.payload)
    /\ Answer(Decoded \o <<"route", "parse">>,
              IF hreq.body.parses /\ hreq.body.payload.json = "missing"
              THEN respondWithSlackError(MsgIncomplete)
              ELSE respondWithSlackError(MsgCannotProcess))

\* handleInteraction: a payload type that is not handled
BH_InteractionIgnored ==
    /\ Verified
    /\ hreq.body.kind = "interaction"
    /\ hreq.body.parses /\ IsPayload(hreq.body.payload)
    /\ hreq.body.payload.Type \notin {"view_submission", "block_actions"}
    /\ Answer(Decoded \o <<"route", "parse">>, StatusOnly(200))

\* handleInteraction: return app.handleViewSubmission(payload)
BH_ViewSubmission ==
    /\ Verified
    /\ hreq.body.kind = "interaction"
    /\ hreq.body.parses /\ IsPayload(hreq.body.payload)
    /\ hreq.body.payload.Type = "view_submission"
    /\ bbIn' = <<hreq.body.payload.callback>>
    /\ bbLog' = <<>>
    /\ hsteps' = Decoded \o <<"route", "parse", "handleViewSubmission">>
    /\ hpc' = "processing"
    /\ UNCHANGED <<bot, hreq, hresp, hcalls, hmark, splitVars, protVars, pmVars, reVars, auVars>>

\* handleViewSubmission has returned: its response is the handler's
BH_Answer ==
    /\ bot = "bamboo-forest" /\ hpc = "processing"
    /\ Len(bbLog) = Len(bbIn)
    /\ hresp' = Last(bbLog).resp
    /\ hpc' = "answered"
    /\ UNCHANGED <<bot, hreq, hsteps, hcalls, hmark, pmVars, HRest>>

\* neither a slash command nor an interaction: return 200
BH_Unknown ==
    /\ Verified
    /\ hreq.body.kind = "unknown"
    /\ Answer(Decoded \o <<"route">>, StatusOnly(200))

\* handleInteraction: return app.handleBlockAction(ctx, payload)
BH_BlockActions ==
    /\ Verified
    /\ hreq.body.kind = "interaction"
    /\ hreq.body.parses /\ IsPayload(hreq.body.payload)
    /\ hreq.body.payload.Type = "block_actions"
    /\ hsteps' = Decoded \o <<"route", "parse", "handleBlockAction">>
    /\ hpc' = "actions"
    /\ UNCHANGED <<bot, hreq, hresp, hcalls, hmark, pmVars, HRest>>

\* for _, action := range payload.ActionCallback.BlockActions: the actions
\* the loop has gone past, and the one it is at
ActionsPassed == Cardinality({k \in 1..Len(hsteps) : hsteps[k] = "action"})

InLoop ==
    /\ bot = "bamboo-forest" /\ hpc = "actions"
    /\ ActionsPassed < Len(hreq.body.payload.actions)

ThisAction == hreq.body.payload.actions[ActionsPassed + 1]

\* the UpdateMessage calls the loop has made for its complete buttons
CompletesPassed ==
    Cardinality({k \in 1..ActionsPassed :
        hreq.body.payload.actions[k].ActionID = ActionCompleteButton})

\* the loop goes on to the next action
NextAction ==
    /\ hsteps' = Append(hsteps, "action")
    /\ UNCHANGED <<hresp, hpc>>

\* an error inside the loop: return respondWithSlackError(message)
LeaveLoop(message) ==
    /\ hresp' = respondWithSlackError(message)
    /\ hpc' = "answered"
    /\ UNCHANGED hsteps

\* case ActionReplyButton: OpenView(payload.TriggerID, buildThreadModal(...))
BA_Reply ==
    /\ InLoop
    /\ ThisAction.ActionID = ActionReplyButton
    /\ LET p == hreq.body.payload
           modal == buildThreadModal(p.Channel, ReplyThreadTS(p.Message))
       IN \E err \in BOOLEAN :
             /\ hcalls' = Append(hcalls, [api |-> "OpenView",
                                          trigger_id |-> p.TriggerID,
                                          view |-> modal.CallbackID,
                                          metadata |-> modal.PrivateMetadata,
                                          ok |-> ~err])
             /\ IF err THEN LeaveLoop(MsgNoReplyModal) ELSE NextAction
    /\ UNCHANGED <<bot, hreq, hmark, pmVars, HRest>>

\* case ActionCompleteButton: UpdateMessage(channelID, messageTS, newBlocks)
BA_Complete ==
    /\ InLoop
    /\ ThisAction.ActionID = ActionCompleteButton
    /\ LET p == hreq.body.payload
       IN updates' = Append(updates, [channel |-> p.Channel,
                                      ts |-> p.Message.Timestamp,
                                      counts |-> NoCounts, by |-> p.User])
    /\ \E err \in BOOLEAN : IF err THEN LeaveLoop(MsgCompleteFailed) ELSE NextAction
    /\ UNCHANGED <<bot, hreq, hcalls, hmark, sheetsOn, sheet, inv, pmVars,
                   splitVars, protVars, bbVars, auVars>>

\* case ActionEmojiThumbsUp, ...: return app.handleEmojiReaction(...)
BA_Emoji ==
    /\ InLoop
    /\ ThisAction.ActionID \in EmojiActionIDs
    /\ LET p == hreq.body.payload
       IN inv' = Append(inv, [pc |-> "start", user |-> p.User,
                              ts |-> p.Message.Timestamp,
                              emoji |-> ThisAction.Value,
                              hash |-> generateReactionHash(p.User,
                                          p.Message.Timestamp, ThisAction.Value),
                              counts |-> NoCounts])
    /\ hsteps' = Append(hsteps, "handleEmojiReaction")
    /\ hpc' = "reacting"
    /\ UNCHANGED <<bot, hreq, hresp, hcalls, hmark, sheetsOn, sheet, updates,
                   pmVars, splitVars, protVars, bbVars, auVars>>

\* an action_id of no case of the switch
BA_Other ==
    /\ InLoop
    /\ ThisAction.ActionID \notin
          {ActionReplyButton, ActionCompleteButton} \cup EmojiActionIDs
    /\ NextAction
    /\ UNCHANGED <<bot, hreq, hcalls, hmark, pmVars, HRest>>

\* the loop is over: return events.LambdaFunctionURLResponse{StatusCode: 200}
BA_Done ==
    /\ bot = "bamboo-forest" /\ hpc = "actions"
    /\ ActionsPassed = Len(hreq.body.payload.actions)
    /\ hresp' = StatusOnly(200)
    /\ hpc' = "answered"
    /\ UNCHANGED <<bot, hreq, hsteps, hcalls, hmark, pmVars, HRest>>

\* handleEmojiReaction has returned: its response is the handler's
BH_EmojiAnswer ==
    /\ bot = "bamboo-forest" /\ hpc = "reacting"
    /\ Last(inv).pc \in {"ignored", "duplicate", "done", "failed"}
    /\ hresp' = IF Last(inv).pc # "failed" THEN StatusOnly(200)
                ELSE IF Len(updates) > hmark.updates + CompletesPassed
                     THEN respondWithSlackError(MsgReactionNotUpdated)
                     ELSE respondWithSlackError(MsgReactionNotSaved)
    /\ hpc' = "answered"
    /\ UNCHANGED <<bot, hreq, hsteps, hcalls, hmark, pmVars, HRest>>

\* the reply modals opened while the request was handled
OpenedReplyModals ==
    {k \in 1..Len(hcalls) :
        hcalls[k].view = CallbackNewThread /\ hcalls[k].ok /\ k > hmark.views}

\* the user fills in the reply modal the click has opened and submits it:
\* Slack sends the view back with the metadata it was opened with
BH_SubmitModal ==
    /\ bot = "bamboo-forest" /\ hpc = "answered"
    /\ \E k \in OpenedReplyModals :
       \E body \in {<<"">>, <<"hello">>} : \E checked \in {<<0>>, <<1>>} :
          Deliver([isBase64 |-> FALSE, decodes |-> TRUE, sig |-> "valid",
                   body |-> [kind |-> "interaction", parses |-> TRUE,
                             payload |->
                               [json |-> "ok", Type |-> "view_submission",
                                clicked |-> hreq.body.payload,
                                callback |->
                                  [User |-> "U2",
                                   CallbackID |-> hcalls[k].view,
                                   PrivateMetadata |-> hcalls[k].metadata,
                                   message |-> body, name |-> <<>>,
                                   mention |-> <<>>, category |-> <<>>,
                                   urgency |-> <<>>, confirm |-> checked]]]])

\* the user clicks the same emoji button once more
BH_ClickAgain ==
    /\ bot = "bamboo-forest" /\ hpc = "answered"
    /\ \E k \in 1..Len(hsteps) : hsteps[k] = "handleEmojiReaction"
    /\ Deliver(hreq)

BhNext ==
    \/ BH_Base64Fails \/ BH_BadSignature \/ BH_SlashRejected \/ BH_SlashCommand
    \/ BH_InteractionRejected \/ BH_InteractionIgnored \/ BH_ViewSubmission
    \/ BH_Answer \/ BH_Unknown \/ BH_BlockActions \/ BA_Reply \/ BA_Complete
    \/ BA_Emoji \/ BA_Other \/ BA_Done \/ BH_EmojiAnswer \/ BH_SubmitModal
    \/ BH_ClickAgain

(***************************************************************************)
(* ai-prompts: scripts/auto-update.sh.  A file name is the sequence of its *)
(* characters.  An entry of a directory is [kind, to]: kind "none" (no     *)
(* such entry), "file" (a file or directory), "symlink" with its           *)
(* destination: <<"repo", dir, name>> for a file of the checkout,          *)
(* <<"elsewhere">> for another existing file, <<"gone">> for nothing.      *)
(***************************************************************************)
Dirs == {"commands", "skills", "agents"}

Names == {<<"a">>, <<"_", "b">>, <<".", "c">>}

NoEntry == [kind |-> "none", to |-> <<>>]
FileEntry == [kind |-> "file", to |-> <<>>]
LinkTo(dest) == [kind |-> "symlink", to |-> dest]

\* the entries a source directory of the checkout can hold: a file, or a
\* symlink whose destination is missing
SourceEntries == {NoEntry, FileEntry, LinkTo(<<"gone">>)}

TargetEntries == {NoEntry, FileEntry, LinkTo(<<"elsewhere">>), LinkTo(<<"gone">>)}

\* [ -e path ]: the entry exists, a symlink being followed
TestE(e) == e.kind = "file" \/ (e.kind = "symlink" /\ e.to # <<"gone">>)

\* [ -L path ]
TestL(e) == e.kind = "symlink"

\* "$source_dir"/* : the names that do not start with a dot
GlobStar(entries) == {n \in Names : entries[n].kind # "none" /\ n[1] # "."}

\* [[ "$filename" == _* ]]
IsUnderscored(n) == n[1] = "_"

\* a variant of the loop test that also takes over a dangling symlink
\* (as ln -sf would)
MayLinkOverDangling(e) == ~TestE(e)

\* [ ! -e "$target" ] && [ ! -L "$target" ]
MayLink(e) == ~TestE(e) /\ ~TestL(e)

\* link_new_files "$source_dir" "$target_dir": the entries of the target
\* directory afterwards
link_new_files(d, source, target) ==
    IF ~source.isDir THEN target
    ELSE [n \in Names |->
            IF /\ n \in GlobStar(source.entries)
               /\ TestE(source.entries[n])
               /\ ~IsUnderscored(n)
               /\ MayLink(target[n])
            THEN LinkTo(<<"repo", d, n>>)
            ELSE target[n]]

\* if [ "$DIFF" -lt 3600 ]
UpdateInterval == 3600

\* a variant that takes the interval for minutes
ThrottledWithinMinute(now, mtime) == now - mtime < 60

\* DIFF=$((NOW - LAST_FETCH)); [ "$DIFF" -lt 3600 ]
Throttled(now, mtime) == now - mtime < UpdateInterval

\* date +%s of the run, and the modification times of .git/FETCH_HEAD
Now == 100000

FetchTimes == {Now - 3601, Now - 3600, Now - 3599, Now - 1}

\* what the checks before the FETCH_HEAD test find
Findings ==
    {[pre |-> "not-installed", hasFetchHead |-> FALSE, mtime |-> 0]}
    \cup {[pre |-> q, hasFetchHead |-> FALSE, mtime |-> 0] :
            q \in {"other-branch", "local-changes", "ok"}}
    \cup {[pre |-> q, hasFetchHead |-> TRUE, mtime |-> t] :
            q \in {"other-branch", "local-changes", "ok"}, t \in FetchTimes}

\* the source directories of the checkout after a pull
SourceDirs ==
    {[isDir |-> FALSE, entries |-> [n \in Names |-> NoEntry]]}
    \cup {[isDir |-> TRUE, entries |-> f] : f \in [Names -> SourceEntries]}

AuFresh ==
    /\ \E f \in Findings : \E r \in {"same", "ahead"} : \E src \in SourceDirs :
          au = [pre |-> f.pre, hasFetchHead |-> f.hasFetchHead, mtime |-> f.mtime,
                now |-> Now, remote |-> r,
                source |-> [d \in Dirs |->
                    IF d = "commands" THEN src
                    ELSE IF d = "skills"
                    THEN [isDir |-> TRUE,
                          entries |-> [n \in Names |->
                              IF n = <<"a">> THEN FileEntry ELSE NoEntry]]
                    ELSE [isDir |-> FALSE, entries |-> [n \in Names |-> NoEntry]]],
                git |-> <<>>, head |-> "local", log |-> <<>>, exit |-> "running"]
    /\ \E tgt \in [Names -> TargetEntries] :
          links = [d \in Dirs |->
                    IF d = "commands" THEN tgt
                    ELSE IF d = "skills" THEN [n \in Names |-> NoEntry]
                    ELSE [n \in Names |-> FileEntry]]
    /\ links0 = links

AuRest == <<splitVars, protVars, pmVars, bbVars, reVars, hVars>>

Exit(git, head, logged) ==
    /\ au' = [au EXCEPT !.git = git, !.head = head, !.log = logged, !.exit = "0"]
    /\ UNCHANGED links0

\* no .git directory, another branch, or local changes: exit 0
AU_Skip ==
    /\ au.exit = "running"
    /\ au.pre # "ok"
    /\ Exit(<<>>, au.head, <<"SKIP">>)
    /\ UNCHANGED <<links, AuRest>>

\* FETCH_HEAD is younger than an hour: exit 0
AU_Throttled ==
    /\ au.exit = "running"
    /\ au.pre = "ok"
    /\ au.hasFetchHead /\ Throttled(au.now, au.mtime)
    /\ Exit(<<>>, au.head, <<>>)
    /\ UNCHANGED <<links, AuRest>>

\* the checks passed and the script reaches git fetch
Due ==
    /\ au.exit = "running"
    /\ au.pre = "ok"
    /\ ~(au.hasFetchHead /\ Throttled(au.now, au.mtime))

\* git fetch origin main fails
AU_FetchFails ==
    /\ Due
    /\ Exit(<<"fetch">>, au.head, <<"WARN: Fetch failed">>)
    /\ UNCHANGED <<links, AuRest>>

\* LOCAL = REMOTE: nothing to do
AU_UpToDate ==
    /\ Due
    /\ au.remote = "same"
    /\ Exit(<<"fetch">>, au.head, <<>>)
    /\ UNCHANGED <<links, AuRest>>

\* git pull --ff-only fails
AU_PullFails ==
    /\ Due
    /\ au.remote = "ahead"
    /\ Exit(<<"fetch", "pull">>, au.head, <<"Updating", "WARN: Pull failed">>)
    /\ UNCHANGED <<links, AuRest>>

\* git pull --ff-only succeeds, then link_new_files for the three directories
AU_Update ==
    /\ Due
    /\ au.remote = "ahead"
    /\ Exit(<<"fetch", "pull">>, "remote", <<"Updating", "SUCCESS: Updated">>)
    /\ links' = [d \in Dirs |-> link_new_files(d, au.source[d], links[d])]
    /\ UNCHANGED AuRest

AuNext ==
    \/ AU_Skip \/ AU_Throttled \/ AU_FetchFails \/ AU_UpToDate
    \/ AU_PullFails \/ AU_Update

(***************************************************************************)
(* ai-prompts: install.sh.  The script checks its tools, clones or updates *)
(* the checkout, then calls link_files for commands, skills and agents in  *)
(* this order and registers the auto-update hook.  log is the set of the   *)
(* lines link_files has printed.                                           *)
(***************************************************************************)
\* the entries a directory of ~/.claude can hold before the script runs:
\* also a link that an earlier installation has made
InstallTargetEntries(d, n) == TargetEntries \cup {LinkTo(<<"repo", d, n>>)}

\* for file in "$source_dir"/*; [ -e "$file" ] || continue;
\* if [[ "$filename" == _* ]]; then continue
Visits(source, n) ==
    /\ source.isDir
    /\ n \in GlobStar(source.entries)
    /\ TestE(source.entries[n])
    /\ ~IsUnderscored(n)

\* a loop that lets ln -sf take the place of whatever is there
SkipsNothing(e) == FALSE

\* if [ -L "$target" ]; then rm ... elif [ -e "$target" ]; then Skip; continue
SkipsLocal(e) == ~TestL(e) /\ TestE(e)

\* link_files "$source_dir" "$target_dir": the entries of the target
\* directory afterwards
link_files(d, source, target) ==
    [n \in Names |->
        IF Visits(source, n) /\ ~SkipsLocal(target[n])
        THEN LinkTo(<<"repo", d, n>>)
        ELSE target[n]]

\* the lines link_files prints
link_files_output(d, source, target) ==
    {<<IF SkipsLocal(target[n]) THEN "Skip" ELSE "Linked", d, n>> :
        n \in {m \in Names : Visits(source, m)}}

\* the order of the three calls
InstallOrder == <<"commands", "skills", "agents">>

\* what the script finds before it links
InstallFindings == {"no-jq", "no-git", "clone-fails", "incomplete", "ok"}

InFresh ==
    /\ \E f \in InstallFindings : \E src \in SourceDirs :
          au = [pre |-> f,
                source |-> [d \in Dirs |->
                    IF d = "commands" THEN src
                    ELSE IF d = "skills"
                    THEN [isDir |-> TRUE,
                          entries |-> [n \in Names |->
                              IF n = <<".", "c">> THEN NoEntry ELSE FileEntry]]
                    ELSE [isDir |-> FALSE, entries |-> [n \in Names |-> NoEntry]]],
                called |-> 0, hook |-> FALSE, log |-> {}, exit |-> "running"]
    /\ \E tgt \in [Names -> UNION {InstallTargetEntries("commands", n) : n \in Names}] :
          /\ \A n \in Names : tgt[n] \in InstallTargetEntries("commands", n)
          /\ links = [d \in Dirs |->
                        IF d = "commands" THEN tgt
                        ELSE IF d = "skills"
                        THEN [n \in Names |->
                                IF n = <<"a">> THEN LinkTo(<<"elsewhere">>)
                                ELSE FileEntry]
                        ELSE [n \in Names |-> FileEntry]]
    /\ links0 = links

\* jq or git is missing: exit 1
IN_MissingTool ==
    /\ au.exit = "running"
    /\ au.pre \in {"no-jq", "no-git"}
    /\ au' = [au EXCEPT !.exit = "1"]
    /\ UNCHANGED <<links, links0, AuRest>>

\* git clone fails: set -e ends the script with git's status
IN_CloneFails ==
    /\ au.exit = "running"
    /\ au.pre = "clone-fails"
    /\ au' = [au EXCEPT !.exit = "128"]
    /\ UNCHANGED <<links, links0, AuRest>>

\* install.sh or commands/ is not in the checkout: exit 1
IN_Incomplete ==
    /\ au.exit = "running"
    /\ au.pre = "incomplete"
    /\ au' = [au EXCEPT !.exit = "1"]
    /\ UNCHANGED <<links, links0, AuRest>>

\* link_files "$AI_PROMPTS_DIR/<dir>" "$HOME/.claude/<dir>", the next of
\* the three calls
IN_LinkFiles ==
    /\ au.exit = "running"
    /\ au.pre = "ok"
    /\ au.called < Len(InstallOrder)
    /\ LET d == InstallOrder[au.called + 1]
       IN /\ links' = [links EXCEPT ![d] = link_files(d, au.source[d], links[d])]
          /\ au' = [au EXCEPT
                      !.called = au.called + 1,
                      !.log = au.log \cup link_files_output(d, au.source[d], links[d])]
    /\ UNCHANGED <<links0, AuRest>>

\* the hook is registered in settings.json and the script ends
IN_RegisterHook ==
    /\ au.exit = "running"
    /\ au.pre = "ok"
    /\ au.called = Len(InstallOrder)
    /\ au' = [au EXCEPT !.hook = TRUE, !.exit = "0"]
    /\ UNCHANGED <<links, links0, AuRest>>

InNext ==
    \/ IN_MissingTool \/ IN_CloneFails \/ IN_Incomplete \/ IN_LinkFiles
    \/ IN_RegisterHook

(***************************************************************************)
(* claude-notify: install-claude-notify.sh.  A JSON value is a tuple:      *)
(* <<"absent">> for a key that is not there, <<"null">>, <<"string", s>>   *)
(* or <<"array", x>>.  settings.json is no file, a file that is not JSON,  *)
(* or an object with hooks.Stop, hooks.Notification, hooks.SessionStart    *)
(* and the top-level key model.                                            *)
(***************************************************************************)
Absent == <<"absent">>
STOP_HOOK == <<"array", "notify: stop">>
NOTIFICATION_HOOK == <<"array", "notify: notification">>

NoFile == [kind |-> "none"]
NotJSON == [kind |-> "garbage"]

HookValues == {Absent, <<"null">>, <<"string", "">>, <<"array", "mine">>}

SettingsFiles ==
    {NoFile, NotJSON}
    \cup {[kind |-> "json", Stop |-> a, Notification |-> b, SessionStart |-> c,
           model |-> m] :
            a \in HookValues, b \in HookValues,
            c \in {Absent, <<"array", "auto-update">>},
            m \in {Absent, <<"string", "opus">>}}

\* jq -r '.hooks.X // empty': the text printed for the value
AlternativeEmpty(v) ==
    IF v \in {Absent, <<"null">>} THEN ""
    ELSE IF v[1] = "string" THEN v[2]
    ELSE "[...]"

\* [ -n "$EXISTING_STOP" ] || [ -n "$EXISTING_NOTIFICATION" ]
HasExistingHooks(f) ==
    AlternativeEmpty(f.Stop) # "" \/ AlternativeEmpty(f.Notification) # ""

\* what the user types at "Continue? (y/N): "
Answers == {"y", "Y", "n", "N", "", "yes"}

\* [ "$confirm" != "y" ] && [ "$confirm" != "Y" ]
Declines(confirm) == confirm # "y" /\ confirm # "Y"

\* jq -n '{hooks: {Stop: $stop, Notification: $notification}}'
NewSettings ==
    [kind |-> "json", Stop |-> STOP_HOOK, Notification |-> NOTIFICATION_HOOK,
     SessionStart |-> Absent, model |-> Absent]

\* an update that writes the file as if there had been none
UpdateHooksFromScratch(f) == NewSettings

\* jq '.hooks.Stop = $stop | .hooks.Notification = $notification'
UpdateHooks(f) == [f EXCEPT !.Stop = STOP_HOOK, !.Notification = NOTIFICATION_HOOK]

CnFresh ==
    /\ \E f \in SettingsFiles : \E jq \in BOOLEAN :
          au = [jq |-> jq, settings |-> f, settings0 |-> f, backup |-> NoFile,
                asked |-> FALSE, confirm |-> "", did |-> <<>>, exit |-> "running"]
    /\ links = <<>>
    /\ links0 = <<>>

CnStep(did) == au.exit = "running" /\ au.did = did

\* jq is not installed: exit 1
CN_NoJq ==
    /\ CnStep(<<>>)
    /\ ~au.jq
    /\ au' = [au EXCEPT !.exit = "1"]
    /\ UNCHANGED <<links, links0, AuRest>>

\* [ ! -f "$SETTINGS_FILE" ]: the file is created
CN_Create ==
    /\ CnStep(<<>>)
    /\ au.jq
    /\ au.settings = NoFile
    /\ au' = [au EXCEPT !.settings = NewSettings, !.did = <<"create">>, !.exit = "0"]
    /\ UNCHANGED <<links, links0, AuRest>>

\* cp "$SETTINGS_FILE" "$BACKUP_FILE"
CN_Backup ==
    /\ CnStep(<<>>)
    /\ au.jq
    /\ au.settings # NoFile
    /\ au' = [au EXCEPT !.backup = au.settings, !.did = <<"cp">>]
    /\ UNCHANGED <<links, links0, AuRest>>

\* EXISTING_STOP=$(jq ...) fails on a file that is not JSON: set -e ends
\* the script with jq's status
CN_NotJSON ==
    /\ CnStep(<<"cp">>)
    /\ au.settings = NotJSON
    /\ au' = [au EXCEPT !.exit = "2"]
    /\ UNCHANGED <<links, links0, AuRest>>

\* read -p "Continue? (y/N): " confirm
CN_Ask ==
    /\ CnStep(<<"cp">>)
    /\ au.settings.kind = "json"
    /\ HasExistingHooks(au.settings)
    /\ \E a \in Answers :
          au' = [au EXCEPT !.asked = TRUE, !.confirm = a, !.did = <<"cp", "read">>]
    /\ UNCHANGED <<links, links0, AuRest>>

\* read meets the end of its input: it fails and set -e ends the script
CN_NoAnswer ==
    /\ CnStep(<<"cp">>)
    /\ au.settings.kind = "json"
    /\ HasExistingHooks(au.settings)
    /\ au' = [au EXCEPT !.asked = TRUE, !.exit = "1"]
    /\ UNCHANGED <<links, links0, AuRest>>

\* mv "$BACKUP_FILE" "$SETTINGS_FILE"; exit 1
CN_Abort ==
    /\ CnStep(<<"cp", "read">>)
    /\ Declines(au.confirm)
    /\ au' = [au EXCEPT !.settings = au.backup, !.backup = NoFile,
                        !.did = <<"cp", "read", "mv">>, !.exit = "1"]
    /\ UNCHANGED <<links, links0, AuRest>>

\* jq ... "$SETTINGS_FILE" > "$TMP_FILE" && mv "$TMP_FILE" "$SETTINGS_FILE"
CN_Update ==
    /\ au.exit = "running"
    /\ \/ au.did = <<"cp">> /\ au.settings.kind = "json"
          /\ ~HasExistingHooks(au.settings)
       \/ au.did = <<"cp", "read">> /\ ~Declines(au.confirm)
    /\ au' = [au EXCEPT !.settings = UpdateHooks(au.settings),
                        !.did = Append(au.did, "jq"), !.exit = "0"]
    /\ UNCHANGED <<links, links0, AuRest>>

CnNext ==
    \/ CN_NoJq \/ CN_Create \/ CN_Backup \/ CN_NotJSON \/ CN_Ask
    \/ CN_NoAnswer \/ CN_Abort \/ CN_Update

(***************************************************************************)
(* splitByNewlineChunk as processMessage calls it: minB 1600, maxB 1800,   *)
(* on messages of several thousand bytes.  A message is a run of           *)
(* characters of one width (1 to 4 bytes), after a few ASCII letters that  *)
(* shift the character boundaries, with or without one newline.            *)
(***************************************************************************)
\* the UTF-8 bytes of 'a', U+00E9, U+AC00, U+1F600
PatternOf(w) ==
    CASE w = 1 -> <<97>>
      [] w = 2 -> <<195, 169>>
      [] w = 3 -> <<234, 176, 128>>
      [] w = 4 -> <<240, 159, 152, 128>>

\* k characters of width w
CharsOf(w, k) == [i \in 1..(w * k) |-> PatternOf(w)[((i - 1) % w) + 1]]

\* n letters 'a'
Letters(n) == [i \in 1..n |-> 97]

\* the lengths of the messages, in bytes, up to a character
LongTotals == {100 + MaxChunkBytes * k : k \in 0..MaxLongChunks}

\* the places of the newline: at 1600 and 1801 it is outside the window
NewlinePlaces == {1600, 1601, 1700, 1800, 1801}

LongMessages ==
    {Letters(pre) \o CharsOf(w, (t \div w) + 1) :
        w \in 1..4, pre \in 0..3, t \in LongTotals}
    \cup {Letters(nl % w) \o CharsOf(w, nl \div w) \o <<10>>
          \o CharsOf(w, (t \div w) + 1) :
        w \in 1..4, nl \in NewlinePlaces, t \in LongTotals}

\* the newline scan without the loop: it stops at the largest cut in
\* (minB, maxB] with data[cut] = '\n', and at minB when there is none
ScanDown(d, lo, hi) ==
    LET found == {i \in (lo + 1)..hi : d[i + 1] = 10}
    IN IF found = {} THEN lo ELSE MaxOf(found)

\* the value of cut at the append, for data of thousands of bytes
LongCutPoint(d, lo, hi) == AdjustUTF8(d, FallbackCut(ScanDown(d, lo, hi), lo, hi))

LongFresh ==
    /\ msg \in LongMessages
    /\ minB = MinChunkBytes
    /\ maxB = MaxChunkBytes
    /\ data = msg
    /\ parts = <<>>
    /\ spc = "entry"

\* one iteration that cuts, on data of thousands of bytes
LongCut ==
    /\ spc = "loop"
    /\ Len(data) > maxB
    /\ Len(parts) < MaxParts
    /\ LET cut == LongCutPoint(data, minB, maxB)
       IN /\ parts' = Append(parts, Slice(data, 0, cut))
          /\ data' = Slice(data, cut, Len(data))
    /\ UNCHANGED <<msg, minB, maxB, spc, protVars, pmVars, bbVars, reVars, hVars, auVars>>

LongNext == SplitWhole \/ SplitEnter \/ SplitLast \/ LongCut

(***************************************************************************)
(* Specifications: each runs one part of the program, the rest at rest.    *)
(***************************************************************************)
SplitIdle ==
    /\ msg = <<>> /\ minB = 0 /\ maxB = 1 /\ data = <<>> /\ parts = <<>>
    /\ spc = "idle"

ProtIdle ==
    /\ text = <<>> /\ targetLang = "" /\ cur = <<>> /\ currencyRepls = <<>>
    /\ laughterRepls = <<>> /\ ops = <<"idle">>

PmIdle ==
    /\ ev = [BotID |-> "", Text |-> <<>>, Channel |-> "", TimeStamp |-> "",
             ThreadTimeStamp |-> ""]
    /\ lang = "unset" /\ translateCalls = <<>> /\ slackPosts = <<>>
    /\ ret = "none" /\ ppc = "idle"

BbIdle == bbIn = <<>> /\ bbLog = <<>>

ReIdle == sheetsOn = FALSE /\ sheet = <<>> /\ inv = <<>> /\ updates = <<>>

HIdle ==
    /\ bot = "" /\ hreq = <<>> /\ hresp = "none" /\ hsteps = <<>> /\ hcalls = <<>>
    /\ hmark = <<>> /\ hpc = "idle"

AuIdle == au = <<>> /\ links = <<>> /\ links0 = <<>>

SplitInit == SplitFresh /\ ProtIdle /\ PmIdle /\ BbIdle /\ ReIdle /\ HIdle /\ AuIdle

SpecSplit == SplitInit /\ [][SplitNext]_vars

LongInit ==
    /\ LongFresh
    /\ ProtIdle /\ PmIdle /\ BbIdle /\ ReIdle /\ HIdle /\ AuIdle

SpecLongSplit == LongInit /\ [][LongNext]_vars

ProtInit == ProtFresh /\ SplitIdle /\ PmIdle /\ BbIdle /\ ReIdle /\ HIdle /\ AuIdle

SpecProtect == ProtInit /\ [][ProtNext]_vars

PmInit == PmFresh /\ SplitIdle /\ ProtIdle /\ BbIdle /\ ReIdle /\ HIdle /\ AuIdle

SpecTranslate == PmInit /\ [][PmNext]_vars

BbInit == BbFresh /\ SplitIdle /\ ProtIdle /\ PmIdle /\ ReIdle /\ HIdle /\ AuIdle

SpecBamboo == BbInit /\ [][BbNext]_vars

ReInit == ReFresh /\ SplitIdle /\ ProtIdle /\ PmIdle /\ BbIdle /\ HIdle /\ AuIdle

SpecReact == ReInit /\ [][ReNext]_vars

\* a request arrives at one of the two functions
HInit ==
    /\ (ThFresh /\ ReIdle) \/ (BhFresh /\ ReFresh)
    /\ SplitIdle /\ ProtIdle /\ PmIdle /\ BbIdle /\ AuIdle

HNext == ThNext \/ PmNext \/ BhNext \/ BbNext \/ ReSteps

SpecHandlers == HInit /\ [][HNext]_vars

AuInit ==
    /\ AuFresh
    /\ SplitIdle /\ ProtIdle /\ PmIdle /\ BbIdle /\ ReIdle /\ HIdle

SpecAutoUpdate == AuInit /\ [][AuNext]_vars

InInit ==
    /\ InFresh
    /\ SplitIdle /\ ProtIdle /\ PmIdle /\ BbIdle /\ ReIdle /\ HIdle

SpecInstall == InInit /\ [][InNext]_vars

CnInit ==
    /\ CnFresh
    /\ SplitIdle /\ ProtIdle /\ PmIdle /\ BbIdle /\ ReIdle /\ HIdle

SpecNotify == CnInit /\ [][CnNext]_vars

(***************************************************************************)
(* Claims about splitByNewlineChunk.                                       *)
(***************************************************************************)
\* the data the most recent cutting iteration started from
BeforeCut == Last(parts) \o data

\* a cutting iteration has just appended a chunk
JustCut == spc = "loop" /\ parts # <<>>

\* the newline positions i (0-based) with minB < i <= maxB
NewlinesInWindow(d) == {i \in (minB + 1)..maxB : d[i + 1] = 10}

\* the start of the character that byte position i of d lies in
CharStart(d, i) ==
    MaxOf({0} \cup {j \in 1..i : ~isUTF8Continuation(d[j + 1])})

\* C1: for a valid UTF-8 msg every chunk boundary is a character boundary:
\* no chunk and no remaining text begins with a continuation byte, and every
\* chunk is valid UTF-8 on its own.
C1_NoCutInsideCharacter ==
    ValidUTF8(msg) =>
        /\ \A i \in 1..Len(parts) :
              /\ ValidUTF8(parts[i])
              /\ parts[i] # <<>> => ~isUTF8Continuation(parts[i][1])
        /\ ValidUTF8(data)
        /\ data # <<>> => ~isUTF8Continuation(data[1])

\* a cut whose byte limit maxB fell inside a multi-byte character
C1_Witness ==
    /\ JustCut
    /\ ValidUTF8(msg)
    /\ NewlinesInWindow(BeforeCut) = {}
    /\ isUTF8Continuation(BeforeCut[maxB + 1])
    /\ Len(Last(parts)) > 0

\* C2: a cut is made at the largest newline position i with minB < i <= maxB
\* when there is one (the chunk ends just before that newline), and at maxB
\* moved back to the start of its character only when there is none.
C2_PrefersNewline ==
    JustCut =>
        LET d == BeforeCut
            c == Len(Last(parts))
            nl == NewlinesInWindow(d)
        IN /\ Len(d) > maxB
           /\ nl # {} => c = MaxOf(nl) /\ d[c + 1] = 10
           /\ nl = {} => c = CharStart(d, maxB)

\* a cut at a newline with a second, smaller newline position in the window
C2_Witness ==
    /\ JustCut
    /\ Cardinality(NewlinesInWindow(BeforeCut)) >= 2
    /\ Len(Last(parts)) = MaxOf(NewlinesInWindow(BeforeCut))

\* C3: every chunk has at most maxB bytes, and a msg of at most maxB bytes
\* is returned as the single chunk msg.
C3_ByteBounded ==
    /\ \A i \in 1..Len(parts) : Len(parts[i]) <= maxB
    /\ (spc = "done" /\ Len(msg) <= maxB) => parts = <<msg>>

\* a finished split into three or more chunks, one of them exactly maxB bytes
C3_Witness ==
    /\ spc = "done"
    /\ Len(parts) >= 3
    /\ \E i \in 1..Len(parts) : Len(parts[i]) = maxB

\* C15: concatenating the chunks in order gives back msg, at the return and
\* (with the bytes still to be split) after every iteration; nothing is
\* dropped at a cut, so a newline cut at starts the following chunk.
C15_Lossless ==
    /\ spc = "loop" => Flatten(parts) \o data = msg
    /\ spc = "done" => Flatten(parts) = msg

\* a message was cut at a newline, which starts the second of three chunks
C15_Witness ==
    /\ spc = "done"
    /\ Len(parts) >= 3
    /\ parts[2] # <<>>
    /\ parts[2][1] = 10
    /\ Len(msg) > maxB

\* C16: every iteration of the loop that cuts removes at least one byte from
\* the remaining data.
C16_EveryIterationRemovesAByte ==
    [][(spc = "loop" /\ spc' = "loop") => Len(data') < Len(data)]_vars

\* what does hold: when maxB leaves room for any character (4 bytes) and
\* msg is valid UTF-8 and not empty, no chunk is empty
C16_NoEmptyChunkWhenACharacterFits ==
    (maxB >= 4 /\ msg # <<>>) => \A i \in 1..Len(parts) : parts[i] # <<>>

\* the scan written without the loop finds the cut the loop finds
C17_ScanDownIsTheLoop ==
    (spc = "loop" /\ Len(data) > maxB) =>
        ScanDown(data, minB, maxB) = ScanNewline(data, maxB, minB)

\* C17: with minB = 1600 and maxB = 1800 every chunk other than the last is
\* longer than 1600 bytes and at most 1800 bytes.
C17_ChunksBetweenTheLimits ==
    (minB = 1600 /\ maxB = 1800) =>
        \A i \in 1..Len(parts) :
            (i < Len(parts) \/ spc = "loop") =>
                Len(parts[i]) > 1600 /\ Len(parts[i]) <= 1800

\* a message of 4-byte characters, shifted by one letter, split in three:
\* the first cut retreats from 1800 to the character start at 1797
C17_Witness ==
    /\ minB = 1600 /\ maxB = 1800
    /\ spc = "done"
    /\ Len(parts) = 3
    /\ Len(parts[1]) = 1797
    /\ msg[1] = 97 /\ msg[2] = 240

(***************************************************************************)
(* Claims about the protect and restore functions.                         *)
(***************************************************************************)
Contains(t, p) ==
    \E i \in 1..(Len(t) - Len(p) + 1) : SubSeq(t, i, i + Len(p) - 1) = p

CountOcc(t, p) ==
    Cardinality({i \in 1..(Len(t) - Len(p) + 1) : SubSeq(t, i, i + Len(p) - 1) = p})

\* the unit of a match with every blank the regular expression allows removed
UnitOf(g2) == SelectSeq(g2, LAMBDA r : ~IsRegexSpace(r))

\* what the claim expects of a chunk: prot, the chunk with the i-th match
\* replaced by __CUR{i}__; list, number + target unit of each match; rest, the
\* chunk with each match rewritten as number + target unit
RECURSIVE ExpectCurrency(_, _, _, _)
ExpectCurrency(t, i, tl, acc) ==
    IF i > Len(t) THEN acc
    ELSE LET m == CurrencyMatchAt(t, i, tl)
             amount == TrimSpace(m.g1) \o MapGet(unitMapOf(tl), UnitOf(m.g2))
         IN IF m.ok
            THEN ExpectCurrency(t, m.end, tl,
                     [prot |-> acc.prot \o CurPlaceholder(Len(acc.list)),
                      list |-> Append(acc.list, amount),
                      rest |-> acc.rest \o amount])
            ELSE ExpectCurrency(t, i + 1, tl,
                     [prot |-> Append(acc.prot, t[i]),
                      list |-> acc.list,
                      rest |-> Append(acc.rest, t[i])])

ExpectedCurrency ==
    ExpectCurrency(text, 1, targetLang, [prot |-> <<>>, list |-> <<>>, rest |-> <<>>])

\* C4: protectCurrency replaces the i-th amount by __CUR{i}__ and stores
\* number + target unit at index i, every match of the regular expression is
\* replaced, and restoreCurrency then yields the chunk with every amount
\* rewritten and every other character unchanged.
C4_CurrencyRestoresByPosition ==
    /\ ops = <<"protectCurrency">> =>
          /\ cur = ExpectedCurrency.prot
          /\ currencyRepls = ExpectedCurrency.list
    /\ ops = <<"protectCurrency", "restoreCurrency">> =>
          cur = ExpectedCurrency.rest

\* a chunk that holds a literal __CUR{i}__ of an index protectCurrency hands out
HasLiteralCurToken(t) ==
    \E i \in 0..Len(t) : Contains(t, CurPlaceholder(i))

\* a chunk with an amount whose unit holds a blank other than ' '
HasOddBlankInUnit(t, tl) ==
    \E s \in 1..Len(t) :
        LET m == CurrencyMatchAt(t, s, tl)
        IN m.ok /\ \E k \in 1..Len(m.g2) : IsRegexSpace(m.g2[k]) /\ m.g2[k] # 32

\* what C4 states holds of every chunk outside the two failing shapes
C4_HoldsOnOtherChunks ==
    (~HasLiteralCurToken(text) /\ ~HasOddBlankInUnit(text, targetLang))
        => C4_CurrencyRestoresByPosition

\* the tokens handed out for the chunk, as <<kind, index>>
TokenIds ==
    {<<"CUR", i>> : i \in 0..(Len(currencyRepls) - 1)}
        \cup {<<"LAU", j>> : j \in 0..(Len(laughterRepls) - 1)}

TokenOf(id) == IF id[1] = "CUR" THEN CurPlaceholder(id[2]) ELSE LauPlaceholder(id[2])

ReplOf(id) ==
    IF id[1] = "CUR" THEN currencyRepls[id[2] + 1] ELSE laughterRepls[id[2] + 1]

LaughRunes(tl) == IF tl = "ja" THEN {12619, 12622} ELSE {119}
LaughMin(tl) == IF tl = "ja" THEN 2 ELSE 3
LaughTarget(tl) == IF tl = "ja" THEN 119 ELSE 12619

\* what the claim expects of a chunk: every maximal run of a laugh rune of
\* the least length or more rewritten rune for rune, a run of w before '.'
\* and everything else kept
RECURSIVE ExpectLaughter(_, _, _)
ExpectLaughter(t, i, tl) ==
    IF i > Len(t) THEN <<>>
    ELSE IF t[i] \in LaughRunes(tl)
    THEN LET e == SkipRune(t, i, t[i])
             url == tl = "ko" /\ e <= Len(t) /\ t[e] = 46
         IN (IF e - i >= LaughMin(tl) /\ ~url
             THEN Repeat(LaughTarget(tl), e - i)
             ELSE SubSeq(t, i, e - 1)) \o ExpectLaughter(t, e, tl)
    ELSE <<t[i]>> \o ExpectLaughter(t, i + 1, tl)

\* C7: protectLaughter followed by restoreLaughter turns every maximal run of
\* k >= 2 kieuk or hieut (target ja) into k 'w', every maximal run of k >= 3
\* 'w' not followed by '.' (target ko) into k kieuk, and leaves a run before
\* '.' and all other text unchanged.
C7_LaughterPreservesLength ==
    ops = <<"protectLaughter", "restoreLaughter">> =>
        cur = ExpectLaughter(text, 1, targetLang)

\* a chunk that holds a literal __LAU{i}__ of an index protectLaughter hands out
HasLiteralLauToken(t) ==
    \E i \in 0..Len(t) : Contains(t, LauPlaceholder(i))

\* what C7 states holds of every chunk that holds no literal placeholder
C7_HoldsOnOtherChunks ==
    ~HasLiteralLauToken(text) => C7_LaughterPreservesLength

(***************************************************************************)
(* Claims about determineLang and processMessage.                          *)
(***************************************************************************)
HasHangulRune(t) == \E i \in 1..Len(t) : IsHangul(t[i])
HasKanaRune(t) == \E i \in 1..Len(t) : IsKana(t[i])

\* C6: determineLang is 'ja' for Hangul without kana, 'ko' for kana without
\* Hangul and '' for both or neither, and processMessage neither translates
\* nor posts when it is ''.
C6_LanguageDetection ==
    (ppc = "done" /\ ev.BotID = "") =>
        /\ (HasHangulRune(ev.Text) /\ ~HasKanaRune(ev.Text)) => lang = "ja"
        /\ (HasKanaRune(ev.Text) /\ ~HasHangulRune(ev.Text)) => lang = "ko"
        /\ (HasHangulRune(ev.Text) <=> HasKanaRune(ev.Text)) =>
              lang = "" /\ translateCalls = <<>> /\ slackPosts = <<>>

\* a message with both scripts was skipped
C6_Witness ==
    /\ ppc = "done"
    /\ ev.BotID = ""
    /\ HasHangulRune(ev.Text) /\ HasKanaRune(ev.Text)
    /\ lang = ""
    /\ translateCalls = <<>>

\* the translation service answered with one translation per chunk
TranslationSucceeded ==
    /\ ppc = "done"
    /\ translateCalls # <<>>
    /\ Last(translateCalls).result = "ok"

\* C11: after a successful translation processMessage has posted exactly one
\* reply, in the channel of the source message, with thread timestamp
\* ev.ThreadTimeStamp when that is non-empty and ev.TimeStamp otherwise.
C11_OneReplyInTheThread ==
    TranslationSucceeded =>
        /\ Len(slackPosts) = 1
        /\ slackPosts[1].channel = ev.Channel
        /\ ev.ThreadTimeStamp # "" => slackPosts[1].ts = ev.ThreadTimeStamp
        /\ ev.ThreadTimeStamp = "" => slackPosts[1].ts = ev.TimeStamp

\* a message inside a thread was translated and answered
C11_Witness ==
    /\ TranslationSucceeded
    /\ ev.ThreadTimeStamp # ""
    /\ ev.ThreadTimeStamp # ev.TimeStamp
    /\ ev.Channel = "C2"
    /\ slackPosts # <<>>

(***************************************************************************)
(* Claims about handleViewSubmission.                                      *)
(***************************************************************************)
\* the two payloads agree in everything but the submitting user
SameButUser(p, q) == [p EXCEPT !.User = q.User] = q

\* C8: two submissions that differ only in the submitting user make the same
\* PostMessage calls: channel, thread and blocks do not depend on payload.User.
C8_PostsHideSubmitter ==
    \A i \in 1..Len(bbLog) : \A j \in 1..Len(bbLog) :
        SameButUser(bbLog[i].payload, bbLog[j].payload)
            => bbLog[i].calls = bbLog[j].calls

\* two users submitted the same form and both submissions were posted
C8_Witness ==
    /\ Len(bbLog) = 2
    /\ bbLog[1].payload.User # bbLog[2].payload.User
    /\ SameButUser(bbLog[1].payload, bbLog[2].payload)
    /\ bbLog[1].calls # <<>>
    /\ bbLog[2].calls # <<>>
    /\ bbLog[1].payload.name = <<>>

\* the submission carries a non-empty message / a selected confirmation
CarriesMessage(p) == p.message # <<>> /\ p.message[1] # ""
CheckboxSelected(p) == p.confirm # <<>> /\ p.confirm[1] >= 1

\* C9: a message is posted only for a submission with a non-empty message
\* and a selected confirmation checkbox; every other submission makes no
\* post and is answered 200 with response_action 'errors'.
C9_ConfirmationBeforePosting ==
    \A i \in 1..Len(bbLog) :
        LET e == bbLog[i]
        IN /\ e.calls # <<>> =>
                CarriesMessage(e.payload) /\ CheckboxSelected(e.payload)
           /\ ~(CarriesMessage(e.payload) /\ CheckboxSelected(e.payload)) =>
                /\ e.calls = <<>>
                /\ e.resp.StatusCode = 200
                /\ e.resp.response_action = "errors"

\* a submission with a message whose checkbox is there but not selected
C9_Witness ==
    \E i \in 1..Len(bbLog) :
        /\ CarriesMessage(bbLog[i].payload)
        /\ bbLog[i].payload.confirm = <<0>>
        /\ bbLog[i].calls = <<>>
        /\ bbLog[i].resp.response_action = "errors"

(***************************************************************************)
(* Claims about the two Lambda handlers.                                   *)
(***************************************************************************)
\* no outbound call has been made since the request arrived
NoNewCalls == \A k \in DOMAIN OutboundCalls : OutboundCalls[k] = hmark[k]

Did(step) == \E k \in 1..Len(hsteps) : hsteps[k] = step

\* the handler gets as far as the signature check with this request
ReachesVerification ==
    IF bot = "translate-bot" THEN hreq.retry = ""
    ELSE ~hreq.isBase64 \/ hreq.decodes

\* C12: a request whose signature does not verify causes no outbound call,
\* and nothing but decoding and verification is done with it; translate-bot
\* answers 401, bamboo-forest 200 with the text "⚠️ 인증에 실패했습니다.".
C12_BadSignatureStopsTheRequest ==
    hreq.sig # "valid" =>
        /\ NoNewCalls
        /\ \A k \in 1..Len(hsteps) : hsteps[k] \in {"base64", "verify"}
        /\ (hpc = "answered" /\ ReachesVerification) =>
              /\ Did("verify")
              /\ bot = "translate-bot" => hresp = StatusOnly(401)
              /\ bot = "bamboo-forest" =>
                    /\ hresp.StatusCode = 200
                    /\ hresp.Body = <<"U+26A0 U+FE0F", " ", MsgAuthFailed>>

\* a view submission that would have been posted, with a wrong signature
C12_Witness ==
    /\ bot = "bamboo-forest"
    /\ hpc = "answered"
    /\ hreq.sig = "mismatch"
    /\ hreq.isBase64
    /\ hreq.body.kind = "interaction"
    /\ hreq.body.payload.json = "ok"
    /\ hreq.body.payload.Type = "view_submission"
    /\ CarriesMessage(hreq.body.payload.callback)
    /\ CheckboxSelected(hreq.body.payload.callback)
    /\ hsteps = <<"base64", "verify">>

\* C18: translate-bot answers a request with a non-empty x-slack-retry-num
\* header with 200 and does nothing else with it: no signature check, no
\* parsing, no translation, no post.
C18_RetriesAreOnlyAcknowledged ==
    (bot = "translate-bot" /\ hreq.retry # "") =>
        /\ hsteps = <<>>
        /\ NoNewCalls
        /\ hpc = "answered" => hresp = StatusOnly(200)

\* a message was translated and answered, then delivered again as a retry
C18_Witness ==
    /\ bot = "translate-bot"
    /\ hpc = "answered"
    /\ hreq.retry = "1"
    /\ hreq.sig = "valid"
    /\ IsMessageCallback(hreq.body)
    /\ hreq.body.ev.BotID = ""
    /\ hmark.n = 2
    /\ Len(slackPosts) = 1

\* C19: for a message event with a non-empty BotID processMessage calls
\* neither the translation service nor Slack and returns nil; the event of
\* the bot's own reply starts no further translation.
C19_BotMessagesIgnored ==
    (bot = "translate-bot" /\ Did("processMessage") /\ hreq.body.ev.BotID # "") =>
        /\ NoNewCalls
        /\ ppc = "done" => ret = "nil"
        /\ hpc = "answered" => hresp = StatusOnly(200)

\* the reply to a translated message came back as an event and was ignored
C19_Witness ==
    /\ bot = "translate-bot"
    /\ hpc = "answered"
    /\ IsMessageCallback(hreq.body)
    /\ hreq.body.ev.BotID = "B0"
    /\ hreq.body.ev.Text = slackPosts[1].text
    /\ Len(slackPosts) = 1
    /\ Len(translateCalls) = 1
    /\ ret = "nil"

\* translateChunks was called for this request and returned an error
TranslationFailed ==
    /\ bot = "translate-bot"
    /\ Did("processMessage")
    /\ Len(translateCalls) > hmark.translate
    /\ Last(translateCalls).result \in TranslateFailures

\* C20: when translateChunks fails, whatever the reason, processMessage
\* posts nothing to Slack, the translation is not tried again, and the
\* handler answers 200.
C20_FailedTranslationPostsNothing ==
    TranslationFailed =>
        /\ Len(slackPosts) = hmark.posts
        /\ Len(translateCalls) = hmark.translate + 1
        /\ ret = "err"
        /\ hpc = "answered" => hresp = StatusOnly(200)

\* the translation service timed out on a message with an amount and laughter
C20_Witness ==
    /\ TranslationFailed
    /\ Last(translateCalls).result = "timeout"
    /\ hreq.body.ev.Text = <<49, 50896, 12619, 12619>>
    /\ hpc = "answered"
    /\ slackPosts = <<>>

\* C21: whatever the bamboo-forest handler is sent and whichever call
\* fails inside it, it returns StatusCode 200 and a nil error.
C21_BambooAlwaysAnswers200 ==
    (bot = "bamboo-forest" /\ hpc = "answered") =>
        hresp.StatusCode = 200 /\ hresp.Err = "nil"

\* a click on an emoji button whose UpdateMessage failed after the row was
\* recorded: the failure is in the body of a 200 response
C21_Witness ==
    /\ bot = "bamboo-forest" /\ hpc = "answered"
    /\ hsteps # <<>> /\ Last(hsteps) = "handleEmojiReaction"
    /\ Last(inv).pc = "failed"
    /\ Len(sheet) = 1 /\ Len(updates) = 1
    /\ hresp.Body = <<"U+26A0 U+FE0F", " ", MsgReactionNotUpdated>>

\* the request is the submission of a reply modal that a click has opened
SubmitsOpenedModal ==
    /\ bot = "bamboo-forest"
    /\ hreq.body.kind = "interaction"
    /\ "clicked" \in DOMAIN hreq.body.payload

\* the request is a click that has been routed to handleBlockAction
IsClick ==
    /\ bot = "bamboo-forest"
    /\ hreq.body.kind = "interaction"
    /\ hreq.body.parses /\ hreq.body.payload.json = "ok"
    /\ hreq.body.payload.Type = "block_actions"

\* the thread a reply to message m belongs to
RootOf(m) == IF m.ThreadTimestamp # <<>> THEN m.ThreadTimestamp ELSE m.Timestamp

\* C22: the metadata of the modal opened by the reply button splits on "|"
\* into the channel of the clicked message and its thread timestamp (its
\* own timestamp when it is not in a thread); a reply submitted through
\* that modal is posted there; and a reply whose metadata does not split
\* into exactly two parts posts nothing and gets an error response.
C22_ReplyRoundTripsThroughModal ==
    /\ IsClick =>
          \A k \in OpenedReplyModals :
              SplitOnBar(hcalls[k].metadata, <<>>) =
                  <<hreq.body.payload.Channel, RootOf(hreq.body.payload.Message)>>
    /\ SubmitsOpenedModal =>
          \A i \in 1..Len(bbLog) : \A j \in 1..Len(bbLog[i].calls) :
              /\ bbLog[i].calls[j].channel = hreq.body.payload.clicked.Channel
              /\ bbLog[i].calls[j].ts = RootOf(hreq.body.payload.clicked.Message)
    /\ bot = "bamboo-forest" =>
          \A i \in 1..Len(bbLog) :
              (/\ bbLog[i].payload.CallbackID = CallbackNewThread
               /\ Message(bbLog[i].payload) # ""
               /\ Confirmed(bbLog[i].payload)
               /\ Len(SplitOnBar(bbLog[i].payload.PrivateMetadata, <<>>)) # 2)
              => /\ bbLog[i].calls = <<>>
                 /\ bbLog[i].resp = respondWithError("bad request")

\* a reply to a message of the thread 90.0, written in the modal the reply
\* button opened, has been posted to that thread in the channel of the click
C22_Witness ==
    /\ SubmitsOpenedModal
    /\ hpc = "answered"
    /\ hresp = respondOK
    /\ Len(bbLog) = 1 /\ Len(bbLog[1].calls) = 1
    /\ hreq.body.payload.clicked.Message.ThreadTimestamp = <<"90", ".", "0">>
    /\ bbLog[1].calls[1].ts = <<"90", ".", "0">>
    /\ bbLog[1].calls[1].channel = <<"C2">>

(***************************************************************************)
(* Claims about auto-update.sh.                                            *)
(***************************************************************************)
\* C13: when FETCH_HEAD was modified less than 3600 seconds before the run,
\* the run runs neither git fetch nor git pull, creates no symlink, and
\* exits 0.
C13_ThrottledWithinTheHour ==
    (au.hasFetchHead /\ au.now - au.mtime < 3600) =>
        /\ au.git = <<>>
        /\ links = links0
        /\ au.exit \in {"running", "0"}

\* a due update with new files, fetched 3599 seconds ago, has exited
C13_Witness ==
    /\ au.exit = "0"
    /\ au.pre = "ok"
    /\ au.hasFetchHead /\ au.now - au.mtime = 3599
    /\ au.remote = "ahead"
    /\ au.source["commands"].entries[<<"a">>] = FileEntry
    /\ links0["commands"][<<"a">>] = NoEntry

\* the run pulled a different commit and linked
Updated == au.exit = "0" /\ au.head = "remote"

\* nothing that was in the target directories has been removed or changed
C14_ExistingEntriesUntouched ==
    \A d \in Dirs : \A n \in Names :
        links0[d][n] # NoEntry => links[d][n] = links0[d][n]

\* C14 as stated: after the fast-forward every source entry whose name does
\* not start with '_' and whose target neither exists nor is a symlink has a
\* symlink, and no existing entry was removed, replaced or retargeted.
C14_LinksEveryNewEntry ==
    /\ C14_ExistingEntriesUntouched
    /\ Updated =>
         \A d \in Dirs : \A n \in Names :
            (/\ au.source[d].entries[n] # NoEntry
             /\ n[1] # "_"
             /\ links0[d][n] = NoEntry)
               => links[d][n] = LinkTo(<<"repo", d, n>>)

\* C14, amended: the source entries linked are those the shell glob and the
\* -e test let through: names that start neither with '_' nor with '.',
\* and entries that exist (a symlink whose destination is missing does not);
\* no other entry is created and no existing entry is touched.
C14_LinksEveryVisibleNewEntry ==
    /\ C14_ExistingEntriesUntouched
    /\ Updated =>
         \A d \in Dirs : \A n \in Names :
            IF /\ au.source[d].entries[n] = FileEntry
               /\ n[1] # "_" /\ n[1] # "."
               /\ links0[d][n] = NoEntry
            THEN links[d][n] = LinkTo(<<"repo", d, n>>)
            ELSE links[d][n] = links0[d][n]
    /\ ~Updated => links = links0

\* a new file was linked next to a dangling symlink that was left alone
C14_Witness ==
    /\ Updated
    /\ links0["commands"][<<"a">>] = NoEntry
    /\ links["commands"][<<"a">>] = LinkTo(<<"repo", "commands", <<"a">>>>)
    /\ links0["commands"][<<"_", "b">>] = LinkTo(<<"gone">>)
    /\ links["skills"][<<"a">>] = LinkTo(<<"repo", "skills", <<"a">>>>)
    /\ au.source["commands"].entries[<<".", "c">>] = FileEntry

(***************************************************************************)
(* Claims about install.sh.                                                *)
(***************************************************************************)
\* link_files has been called for directory d
Linked(d) ==
    \E k \in 1..au.called : InstallOrder[k] = d

OtherKeys(f) == <<f.SessionStart, f.model>>

\* C24: a settings.json that was there is changed only after it has been
\* copied to the backup; when the user is asked and answers anything but
\* y or Y (or nothing at all) the script ends with status 1 and
\* settings.json has the content it had; when the script goes on, Stop and
\* Notification are the new hooks and every other key is as it was.
C24_SettingsBackedUpAndKept ==
    /\ (au.settings0 # NoFile /\ au.settings # au.settings0) =>
          au.backup = au.settings0
    /\ (au.asked /\ au.exit # "running" /\ Declines(au.confirm)) =>
          au.exit = "1" /\ au.settings = au.settings0
    /\ (au.settings0 # NoFile /\ au.exit = "0") =>
          /\ au.settings.Stop = STOP_HOOK
          /\ au.settings.Notification = NOTIFICATION_HOOK
          /\ OtherKeys(au.settings) = OtherKeys(au.settings0)
          /\ au.backup = au.settings0

\* the user declined with "yes": the hooks and the other keys are as before
C24_Witness ==
    /\ au.exit = "1"
    /\ au.asked /\ au.confirm = "yes"
    /\ au.settings0 # NoFile
    /\ au.settings0.kind = "json"
    /\ au.settings0.Stop = <<"array", "mine">>
    /\ au.settings0.model = <<"string", "opus">>
    /\ au.settings = au.settings0

(***************************************************************************)
(* Claims about handleEmojiReaction.                                       *)
(***************************************************************************)
\* C10: whatever the clicks and however their invocations interleave, the
\* reactions sheet holds at most one row for each (user, message timestamp,
\* emoji) triple.
C10_OneRowPerReaction ==
    \A u \in Users : \A ts \in MessageTSs : \A e \in Emojis :
        Cardinality({k \in 1..Len(sheet) :
                        sheet[k].hash = generateReactionHash(u, ts, e)}) <= 1

\* what does hold: a row is appended only by an invocation of that reaction
C10_RowsComeFromClicks ==
    \A k \in 1..Len(sheet) :
        \E i \in 1..Len(inv) :
            /\ inv[i].hash = sheet[k].hash
            /\ inv[i].pc \in {"counts", "update", "done", "failed"}

====
